---- MODULE Spec2Model ----
(***************************************************************************)
(* A model of the event-ingestion and analytical-streaming pipeline of     *)
(* globalthreatmap: the country-conflict stream relay and its SSE route,   *)
(* the events assembler (processSearchResults), the deep-research wait     *)
(* loop with its status route and client poller, and the OAuth-proxy       *)
(* operations.  Each component has its own specification over the shared   *)
(* variables; the variables of the other components stay at their idle     *)
(* values.                                                                 *)
(***************************************************************************)
EXTENDS Integers, Sequences, FiniteSets, TLC

VARIABLES
    \* ---- conflict stream relay (streamCountryConflicts + SSE route GET)
    s_mode,      \* "proxy" (accessToken given) or "sdk" (self-hosted)
    s_hasKey,    \* VALYU_API_KEY is set
    s_pc,        \* position of the generator / route loop
    s_arrived,   \* provider messages in the order the relay received them
    s_out,       \* chunks enqueued on the SSE controller, in order
    s_closed,    \* controller.close() has been called
    s_next,      \* identity of the next provider message
    s_auth,      \* the proxy answered 401/403 during this run
    s_failed,    \* a provider call of this run failed
    s_cancelled, \* "no", or the phase during which the consumer closed its end
    \* ---- events assembler (processSearchResults + events route)
    a_variant,   \* which processSearchResults: "full" or "basic"
    a_results,   \* the raw search results handed to the assembler
    a_oracle,    \* what classifyEvent answers for each result
    a_pc,        \* "pending" until the request has been answered
    a_resp,      \* the response of the events route
    \* ---- deep research, server side (deepResearchViaProxy)
    w_pc,        \* "create", "loop", "done" (returned) or "threw"
    w_i,         \* the loop counter
    w_polls,     \* status fetches issued so far
    w_last,      \* what the latest status fetch answered
    w_failed,    \* the failed status the provider reported, if any
    w_result,    \* the DeepResearchResult handed to the caller
    \* ---- deep research, client side (EntitySearch poller)
    c_taskId,    \* deepResearchTaskId: NoTask or the number of the task
    c_timer,     \* the task the poll interval polls, NoTask when no interval is set
    c_tasks,     \* tasks created so far
    c_inflight,  \* status requests not answered yet, per task
    c_polls,     \* status requests issued so far
    c_error,     \* deepResearchError
    c_result,    \* deepResearchResult
    c_mounted,   \* the component is mounted
    \* ---- events hook (useEvents) and auth store
    h_variant,         \* which useEvents: "use-events" or "part_010"
    h_pc,              \* "unmounted" or "mounted"
    h_isAuthenticated, \* auth store: isAuthenticated
    h_token,           \* auth store: accessToken (0: null)
    h_expired,         \* the token is past tokenExpiresAt
    h_issued,          \* tokens issued so far
    h_timer,           \* the auto-refresh interval is set
    h_inflight,        \* events requests not answered yet, per token carried
    h_rejected,        \* tokens a request was answered with requiresReauth for
    h_sent,            \* events requests sent so far
    h_requiresSignIn,  \* requiresSignIn
    h_error,           \* events store: error
    h_initialFetch,    \* initialFetchRef.current (part_010)
    \* ---- the searches of one events request (POST /api/events)
    q_mode,      \* "proxy" (valyu mode) or "sdk" (self-hosted)
    q_pc,        \* "waiting" for Promise.all, or "done"
    q_searches,  \* the promise of each searchEvents call
    q_resp,      \* the response of the route
    \* ---- entity research stream (streamEntityResearch + SSE route GET)
    e_mode,      \* "proxy" (accessToken given) or "sdk" (self-hosted)
    e_hasKey,    \* VALYU_API_KEY is set
    e_pc,        \* where the generator and the route are
    e_out,       \* the chunks enqueued for the consumer
    e_closed,    \* controller.close() has run
    e_count,     \* provider messages received
    \* ---- events store (useEventsStore)
    st_events,             \* events
    st_filtered,           \* filteredEvents
    st_timeRange,          \* timeRange
    st_categoryFilters,    \* categoryFilters
    st_threatLevelFilters, \* threatLevelFilters
    st_searchQuery,        \* searchQuery
    st_call,                \* the latest call: addEvents with its argument, or another
    \* ---- deliverables of a completed deep-research task
    dl_pc,  \* "completed", then "server" (result returned) or "relayed" and "rendered"
    dl_input,  \* statusData.deliverables as the provider reports them
    dl_server,  \* DeepResearchResult.deliverables
    dl_data,  \* data.deliverables of the status route
    dl_offered,   \* the download links EntitySearch renders
    \* ---- geocoding and classifyEvent
    g_pc,  \* "called" or "returned"
    g_call,  \* the function called, its arguments and its environment
    g_ret,   \* what the call returned
    \* ---- creating a deep-research task (POST /api/deepresearch, handleSearch)
    k_pc,  \* "sent", "answered" or "handled"
    k_req,  \* the request, the mode of the server and what the provider does
    k_resp,  \* the response of the route
    k_taskId,  \* the task id handleSearch stored
    k_error,   \* deepResearchError as handleSearch set it
    \* ---- country conflicts in the browser (handleMapClick, CountryConflictsModal)
    m_mode,  \* NEXT_PUBLIC_APP_MODE: "valyu" or "self-hosted"
    m_initialized,  \* auth store: initialized
    m_token,  \* auth store: accessToken (0: null)
    m_clicks,  \* the country clicks the usage limit has counted
    m_showSignIn,  \* showSignInModal
    m_country,  \* selectedCountry
    m_es,  \* the EventSource objects created so far, in order
    m_data,  \* data of the modal
    m_error,  \* error of the modal
    m_isLoading,  \* isLoading of the modal
    m_streaming,  \* "current", "past" or "none": isStreamingCurrent, isStreamingPast
    m_mapLoading,   \* isCountryLoading of the map (onLoadingChange)
    \* ---- the fan-out of processSearchResults (Promise.all over classifyEvent)
    b_pc,  \* "classifying", "returned" or "rejected"
    b_results,  \* the search results handed to processSearchResults
    b_oracle,  \* what classifyEvent answers for each result
    b_clock,  \* new Date() of the latest settlement
    b_settledAt,  \* when the call of each result settled (0: not yet)
    b_events,   \* the list processSearchResults returned
    \* ---- overlapping events fetches (fetchEvents of use-events.ts)
    f_mode,  \* NEXT_PUBLIC_APP_MODE: "valyu" or "self-hosted"
    f_isAuthenticated,  \* auth store: isAuthenticated
    f_started,  \* fetches started so far
    f_outcome,  \* how each fetch ended, "pending" until then
    f_events,  \* events of the store: the number of the fetch they came from
    f_isLoading,  \* isLoading of the store
    f_error,  \* error of the store
    f_requiresSignIn,   \* requiresSignIn
    \* ---- refreshes of the merging useEvents (part_010) with the events route
    r_events,  \* events of the store: the article and the id of each
    r_initialFetch,  \* initialFetchRef.current
    r_issued,  \* ids generateEventId has issued
    r_calls,  \* fetchEvents calls so far
    r_inflight   \* requests not answered yet, each with the ids its callback saw

streamVars == <<s_mode, s_hasKey, s_pc, s_arrived, s_out, s_closed, s_next, s_auth, s_failed, s_cancelled>>

asmVars == <<a_variant, a_results, a_oracle, a_pc, a_resp>>

waitVars == <<w_pc, w_i, w_polls, w_last, w_failed, w_result>>

pollVars == <<c_taskId, c_timer, c_tasks, c_inflight, c_polls, c_error, c_result, c_mounted>>

hookVars == <<h_variant, h_pc, h_isAuthenticated, h_token, h_expired, h_issued, h_timer,
              h_inflight, h_rejected, h_sent, h_requiresSignIn, h_error, h_initialFetch>>

searchVars == <<q_mode, q_pc, q_searches, q_resp>>

entityVars == <<e_mode, e_hasKey, e_pc, e_out, e_closed, e_count>>

storeVars == <<st_events, st_filtered, st_timeRange, st_categoryFilters,
               st_threatLevelFilters, st_searchQuery, st_call>>

delivVars == <<dl_pc, dl_input, dl_server, dl_data, dl_offered>>

geoVars == <<g_pc, g_call, g_ret>>

createVars == <<k_pc, k_req, k_resp, k_taskId, k_error>>

modalVars == <<m_mode, m_initialized, m_token, m_clicks, m_showSignIn, m_country, m_es, m_data, m_error, m_isLoading, m_streaming, m_mapLoading>>

batchVars == <<b_pc, b_results, b_oracle, b_clock, b_settledAt, b_events>>

fetchVars == <<f_mode, f_isAuthenticated, f_started, f_outcome, f_events, f_isLoading, f_error, f_requiresSignIn>>

refreshVars == <<r_events, r_initialFetch, r_issued, r_calls, r_inflight>>

vars == <<streamVars, asmVars, waitVars, pollVars, hookVars, searchVars, entityVars, storeVars, delivVars, geoVars, createVars, modalVars, batchVars, fetchVars, refreshVars>>

\* what each component leaves alone
StreamFrame == UNCHANGED <<asmVars, waitVars, pollVars, hookVars, searchVars, entityVars, storeVars, delivVars, geoVars, createVars, modalVars, batchVars, fetchVars, refreshVars>>

AsmFrame == UNCHANGED <<streamVars, waitVars, pollVars, hookVars, searchVars, entityVars, storeVars, delivVars, geoVars, createVars, modalVars, batchVars, fetchVars, refreshVars>>

WaitFrame == UNCHANGED <<streamVars, asmVars, pollVars, hookVars, searchVars, entityVars, storeVars, delivVars, geoVars, createVars, modalVars, batchVars, fetchVars, refreshVars>>

PollFrame == UNCHANGED <<streamVars, asmVars, waitVars, hookVars, searchVars, entityVars, storeVars, delivVars, geoVars, createVars, modalVars, batchVars, fetchVars, refreshVars>>

HookFrame == UNCHANGED <<streamVars, asmVars, waitVars, pollVars, searchVars, entityVars, storeVars, delivVars, geoVars, createVars, modalVars, batchVars, fetchVars, refreshVars>>

SearchFrame == UNCHANGED <<streamVars, asmVars, waitVars, pollVars, hookVars, entityVars, storeVars, delivVars, geoVars, createVars, modalVars, batchVars, fetchVars, refreshVars>>

EntityFrame == UNCHANGED <<streamVars, asmVars, waitVars, pollVars, hookVars, searchVars, storeVars, delivVars, geoVars, createVars, modalVars, batchVars, fetchVars, refreshVars>>

StoreFrame == UNCHANGED <<streamVars, asmVars, waitVars, pollVars, hookVars, searchVars, entityVars, delivVars, geoVars, createVars, modalVars, batchVars, fetchVars, refreshVars>>

DelivFrame == UNCHANGED <<streamVars, asmVars, waitVars, pollVars, hookVars, searchVars, entityVars, storeVars, geoVars, createVars, modalVars, batchVars, fetchVars, refreshVars>>

GeoFrame == UNCHANGED <<streamVars, asmVars, waitVars, pollVars, hookVars, searchVars, entityVars, storeVars, delivVars, createVars, modalVars, batchVars, fetchVars, refreshVars>>

CreateFrame == UNCHANGED <<streamVars, asmVars, waitVars, pollVars, hookVars, searchVars, entityVars, storeVars, delivVars, geoVars, modalVars, batchVars, fetchVars, refreshVars>>

ModalFrame == UNCHANGED <<streamVars, asmVars, waitVars, pollVars, hookVars, searchVars, entityVars, storeVars, delivVars, geoVars, createVars, batchVars, fetchVars, refreshVars>>

BatchFrame == UNCHANGED <<streamVars, asmVars, waitVars, pollVars, hookVars, searchVars, entityVars, storeVars, delivVars, geoVars, createVars, modalVars, fetchVars, refreshVars>>

FetchFrame == UNCHANGED <<streamVars, asmVars, waitVars, pollVars, hookVars, searchVars, entityVars, storeVars, delivVars, geoVars, createVars, modalVars, batchVars, refreshVars>>

RefreshFrame == UNCHANGED <<streamVars, asmVars, waitVars, pollVars, hookVars, searchVars, entityVars, storeVars, delivVars, geoVars, createVars, modalVars, batchVars, fetchVars>>

(***************************************************************************)
(* Bounds                                                                  *)
(***************************************************************************)
\* provider messages per phase of one conflict stream
MaxChunks == 2

(***************************************************************************)
(* Conflict stream relay                                                   *)
(***************************************************************************)
TerminalTypes == {"done", "error"}
CurrentTypes == {"current_content", "current_sources"}
PastTypes == {"past_content", "past_sources"}

\* a chunk of the relay: its type and the provider message it relays (0: none)
Chunk(t, id) == [type |-> t, id |-> id]

\* a message of the provider's answer stream
SdkKinds == {"content", "content_empty", "search_results", "search_results_missing", "other"}

\* the relay's mapping of one provider stream message of a phase to chunks
RelaySdk(phase, kind, id) ==
    IF kind = "content" THEN <<Chunk(phase \o "_content", id)>>
    ELSE IF kind = "search_results" THEN <<Chunk(phase \o "_sources", id)>>
    ELSE <<>>

\* mutant: chunks put in front of the queue instead of behind it
EnqueueFront(out, chunks) == chunks \o out

\* the route's loop body: controller.enqueue of the chunks the generator yields
Enqueue(out, chunks) == out \o chunks

\* mutant: a catch block that swallows the exception without a chunk
RouteCatchSilent(out) == out

\* the route's catch block: an error chunk for an exception of the generator
RouteCatch(out) == Append(out, Chunk("error", 0))

\* the generator's own catch block
GenCatch(out) == Append(out, Chunk("error", 0))

\* the last statement of the try block
YieldDone(out) == Append(out, Chunk("done", 0))

\* controller.enqueue on a stream the consumer has cancelled throws: the
\* for-await loop returns the generator, the route's catch block throws on
\* its own enqueue, and start() ends without another chunk
EnqueueThrows == s_cancelled # "no"

Aborted ==
    /\ s_out' = s_out
    /\ s_pc' = "aborted"

StreamIdle ==
    /\ s_mode = "proxy"
    /\ s_hasKey = FALSE
    /\ s_pc = "idle"
    /\ s_arrived = <<>>
    /\ s_out = <<>>
    /\ s_closed = FALSE
    /\ s_next = 1
    /\ s_auth = FALSE
    /\ s_failed = FALSE
    /\ s_cancelled = "no"

StreamInit ==
    /\ s_mode \in {"proxy", "sdk"}
    /\ s_hasKey \in BOOLEAN
    /\ s_pc = "start"
    /\ s_arrived = <<>>
    /\ s_out = <<>>
    /\ s_closed = FALSE
    /\ s_next = 1
    /\ s_auth = FALSE
    /\ s_failed = FALSE
    /\ s_cancelled = "no"

\* proxied mode: one callViaProxy per phase, the answer relayed whole
ProxyResults ==
    [success : {TRUE}, data : {TRUE}, contents : BOOLEAN,
     search_results : {"absent", "list", "malformed"}, requiresReauth : {FALSE}]
    \cup [success : {TRUE}, data : {FALSE}, contents : {FALSE},
          search_results : {"absent"}, requiresReauth : {FALSE}]
    \cup [success : {FALSE}, data : {FALSE}, contents : {FALSE},
          search_results : {"absent"}, requiresReauth : BOOLEAN]

\* the provider messages a proxied answer holds: contents, then search_results
ProxyArrived(phase, r, id) ==
    (IF r.success /\ r.data /\ r.contents
        THEN <<[phase |-> phase, kind |-> "content", id |-> id]>> ELSE <<>>)
    \o (IF r.success /\ r.data /\ r.search_results = "list"
        THEN <<[phase |-> phase, kind |-> "search_results", id |-> id + 1]>> ELSE <<>>)

\* the chunks one proxied phase yields before .map throws or the phase ends
RelayProxy(phase, r, id) ==
    IF r.success /\ r.data
    THEN (IF r.contents THEN <<Chunk(phase \o "_content", id)>> ELSE <<>>)
         \o (IF r.search_results = "list"
             THEN <<Chunk(phase \o "_sources", id + 1)>> ELSE <<>>)
    ELSE <<>>

ProxyPhase(phase, here, there) ==
    /\ s_mode = "proxy"
    /\ s_pc = here
    /\ \E r \in ProxyResults :
        /\ s_arrived' = s_arrived \o ProxyArrived(phase, r, s_next)
        /\ s_next' = s_next + 2
        /\ s_auth' = (s_auth \/ r.requiresReauth)
        /\ s_failed' = (s_failed \/ ~ r.success)
        /\ IF r.success /\ r.data /\ r.search_results = "malformed"
           THEN \* search_results.map throws inside the try block
                IF EnqueueThrows
                THEN Aborted
                ELSE /\ s_out' = GenCatch(Enqueue(s_out, RelayProxy(phase, r, s_next)))
                     /\ s_pc' = "returned"
           ELSE IF EnqueueThrows /\ RelayProxy(phase, r, s_next) # <<>>
                THEN Aborted
                ELSE /\ s_out' = Enqueue(s_out, RelayProxy(phase, r, s_next))
                     /\ s_pc' = there
    /\ UNCHANGED <<s_mode, s_hasKey, s_closed, s_cancelled>>
    /\ StreamFrame

ProxyCurrent == ProxyPhase("current", "start", "p_past")

ProxyPast == ProxyPhase("past", "p_past", "p_done")

\* self-hosted mode: getValyuClient() runs outside the generator's try block
SdkGetClient ==
    /\ s_mode = "sdk"
    /\ s_pc = "start"
    /\ IF s_hasKey
       THEN /\ s_pc' = "current_call"
            /\ UNCHANGED <<s_out, s_closed>>
       ELSE \* the generator throws; the route's catch enqueues and closes
            IF EnqueueThrows
            THEN Aborted /\ UNCHANGED s_closed
            ELSE /\ s_out' = RouteCatch(s_out)
                 /\ s_closed' = TRUE
                 /\ s_pc' = "closed"
    /\ UNCHANGED <<s_mode, s_hasKey, s_arrived, s_next, s_auth, s_failed, s_cancelled>>
    /\ StreamFrame

\* await valyu.answer(query, {streaming: true}) of a phase
SdkAnswer(here, iter, skip) ==
    /\ s_mode = "sdk"
    /\ s_pc = here
    /\ \E outcome \in {"iterable", "plain", "throws"} :
        CASE outcome = "iterable" -> s_pc' = iter /\ UNCHANGED <<s_out, s_failed>>
          [] outcome = "plain" -> s_pc' = skip /\ UNCHANGED <<s_out, s_failed>>
          [] outcome = "throws" -> /\ IF EnqueueThrows
                                      THEN Aborted
                                      ELSE s_pc' = "returned" /\ s_out' = GenCatch(s_out)
                                   /\ s_failed' = TRUE
    /\ UNCHANGED <<s_mode, s_hasKey, s_arrived, s_closed, s_next, s_auth, s_cancelled>>
    /\ StreamFrame

PhaseCount(phase) ==
    Cardinality({i \in 1..Len(s_arrived) : s_arrived[i].phase = phase})

\* one turn of the for-await loop over a phase's stream
SdkIterate(phase, here, there) ==
    /\ s_mode = "sdk"
    /\ s_pc = here
    /\ \/ \E kind \in SdkKinds :
            /\ PhaseCount(phase) < MaxChunks
            /\ s_arrived' = Append(s_arrived, [phase |-> phase, kind |-> kind, id |-> s_next])
            /\ s_next' = s_next + 1
            /\ IF EnqueueThrows /\ RelaySdk(phase, kind, s_next) # <<>>
               THEN Aborted
               ELSE /\ s_out' = Enqueue(s_out, RelaySdk(phase, kind, s_next))
                    /\ s_pc' = here
            /\ UNCHANGED s_failed
       \/ \* the provider's stream ends
          /\ s_pc' = there
          /\ UNCHANGED <<s_arrived, s_next, s_out, s_failed>>
       \/ \* the provider's stream throws
          /\ IF EnqueueThrows
             THEN Aborted
             ELSE s_pc' = "returned" /\ s_out' = GenCatch(s_out)
          /\ s_failed' = TRUE
          /\ UNCHANGED <<s_arrived, s_next>>
    /\ UNCHANGED <<s_mode, s_hasKey, s_closed, s_auth, s_cancelled>>
    /\ StreamFrame

SdkCurrentCall == SdkAnswer("current_call", "current_iter", "past_call")

SdkCurrentIter == SdkIterate("current", "current_iter", "past_call")

SdkPastCall == SdkAnswer("past_call", "past_iter", "p_done")

SdkPastIter == SdkIterate("past", "past_iter", "p_done")

\* yield { type: "done" } at the end of either try block
StreamDone ==
    /\ s_pc = "p_done"
    /\ IF EnqueueThrows
       THEN Aborted
       ELSE s_out' = YieldDone(s_out) /\ s_pc' = "returned"
    /\ UNCHANGED <<s_mode, s_hasKey, s_arrived, s_closed, s_next, s_auth, s_failed, s_cancelled>>
    /\ StreamFrame

\* the generator has returned: the route's loop ends and the controller closes
RouteClose ==
    /\ s_pc = "returned"
    /\ s_closed' = TRUE
    /\ s_pc' = "closed"
    /\ UNCHANGED <<s_mode, s_hasKey, s_arrived, s_out, s_next, s_auth, s_failed, s_cancelled>>
    /\ StreamFrame

\* the provider call the generator is waiting for
AwaitedPhase ==
    CASE s_pc \in {"start", "current_call", "current_iter"} -> "current"
      [] s_pc \in {"p_past", "past_call", "past_iter"} -> "past"
      [] OTHER -> "none"

\* the consumer closes its end of the SSE response; the route's
\* ReadableStream has no cancel callback and passes no abort signal on
ConsumerCancel ==
    /\ s_cancelled = "no"
    /\ AwaitedPhase # "none"
    /\ s_cancelled' = AwaitedPhase
    /\ UNCHANGED <<s_mode, s_hasKey, s_pc, s_arrived, s_out, s_closed, s_next, s_auth, s_failed>>
    /\ StreamFrame

StreamNext ==
    \/ ProxyCurrent
    \/ ProxyPast
    \/ SdkGetClient
    \/ SdkCurrentCall
    \/ SdkCurrentIter
    \/ SdkPastCall
    \/ SdkPastIter
    \/ StreamDone
    \/ RouteClose

CancelNext ==
    \/ StreamNext
    \/ ConsumerCancel


(***************************************************************************)
(* Claims about the conflict stream                                        *)
(***************************************************************************)
Terminals(out) == {i \in 1..Len(out) : out[i].type \in TerminalTypes}

\* C1: in every run of the country-conflict stream the chunks delivered to
\* the SSE consumer hold at most one terminal chunk (done or error), nothing
\* follows it, and once the controller is closed there is exactly one.
C1_OneTerminalLast ==
    /\ Cardinality(Terminals(s_out)) <= 1
    /\ \A i \in Terminals(s_out) : i = Len(s_out)
    /\ s_closed => Cardinality(Terminals(s_out)) = 1

\* a closed stream that relayed content of both phases and then failed
C1_Witness ==
    /\ s_closed
    /\ Len(s_out) >= 3
    /\ s_out[Len(s_out)].type = "error"
    /\ \E i \in 1..Len(s_out) : s_out[i].type \in PastTypes

\* the relayable provider messages of a phase, as the chunks they become
ArrivedChunks(phase) ==
    LET sel == SelectSeq(s_arrived, LAMBDA m : m.phase = phase
                                       /\ m.kind \in {"content", "search_results"})
    IN [i \in 1..Len(sel) |->
            Chunk(IF sel[i].kind = "content" THEN phase \o "_content"
                  ELSE phase \o "_sources", sel[i].id)]

OutChunks(types) == SelectSeq(s_out, LAMBDA c : c.type \in types)

\* C2: every current_* chunk is emitted before any past_* chunk, and the
\* chunks of each phase are the provider's messages of that phase in the
\* order they arrived.
C2_PhaseOrder ==
    /\ \A i, j \in 1..Len(s_out) :
        (i < j /\ s_out[i].type \in PastTypes) => s_out[j].type \notin CurrentTypes
    /\ OutChunks(CurrentTypes) = ArrivedChunks("current")
    /\ OutChunks(PastTypes) = ArrivedChunks("past")

\* a stream that relayed two current messages and then a past one
C2_Witness ==
    /\ Len(OutChunks(CurrentTypes)) >= 2
    /\ Len(OutChunks(PastTypes)) >= 1
    /\ s_mode = "sdk"

\* C10: once the proxy has answered 401 or 403 during a conflict stream, the
\* stream handed to the caller is never ended by a `done` chunk, as if the
\* lookup had succeeded with nothing to report.
C10_ReauthNeverDone ==
    s_auth => \A i \in 1..Len(s_out) : s_out[i].type # "done"

ErrorChunks(out) == {i \in 1..Len(out) : out[i].type = "error"}

StreamFailureReported ==
    /\ \A i \in 1..Len(s_out) : s_out[i].type # "done"
    /\ s_closed => Cardinality(ErrorChunks(s_out)) = 1

\* C12: once the provider call of either phase has failed (a non-success
\* result of the proxy, or an SDK call that throws), the stream never carries
\* a `done` chunk, and when it closes it carries exactly one `error` chunk.
C12_FailureEndsWithError == s_failed => StreamFailureReported

\* the self-hosted branch alone reports every failure of a provider call
C12_HoldsForSdk == (s_failed /\ s_mode = "sdk") => StreamFailureReported

OfType(out, t) == {i \in 1..Len(out) : out[i].type = t}

\* C13: a run emits at most one current_sources chunk and at most one
\* past_sources chunk; the current_sources chunk follows every
\* current_content chunk and precedes every past_* chunk.
C13_OneSourcesChunkPerPhase ==
    /\ Cardinality(OfType(s_out, "current_sources")) <= 1
    /\ Cardinality(OfType(s_out, "past_sources")) <= 1
    /\ \A i \in OfType(s_out, "current_sources") :
        /\ \A j \in OfType(s_out, "current_content") : j < i
        /\ \A j \in 1..Len(s_out) : s_out[j].type \in PastTypes => i < j

\* the proxied branch alone emits its sources chunks as C13 says
C13_HoldsForProxy == (s_mode = "proxy") => C13_OneSourcesChunkPerPhase

\* C14: once the consumer has closed its end during the current phase, the
\* producer never goes on to the provider call of the past phase.
C14_CancelStopsProducer ==
    s_cancelled = "current" => s_pc \notin {"p_past", "past_call", "past_iter"}

(***************************************************************************)
(* Strings: sequences of one-character strings                             *)
(***************************************************************************)
UpperChars == <<"A", "B", "C", "D", "E", "F", "G", "H", "I", "J", "K", "L", "M", "N", "O", "P", "Q", "R", "S", "T", "U", "V", "W", "X", "Y", "Z">>

LowerChars == <<"a", "b", "c", "d", "e", "f", "g", "h", "i", "j", "k", "l", "m", "n", "o", "p", "q", "r", "s", "t", "u", "v", "w", "x", "y", "z">>

IsUpper(c) == \E i \in 1..Len(UpperChars) : UpperChars[i] = c

IsLetter(c) == IsUpper(c) \/ \E i \in 1..Len(LowerChars) : LowerChars[i] = c

LowerChar(c) ==
    IF IsUpper(c)
    THEN LowerChars[CHOOSE i \in 1..Len(UpperChars) : UpperChars[i] = c]
    ELSE c

\* String.prototype.toLowerCase
ToLowerCase(s) == [i \in 1..Len(s) |-> LowerChar(s[i])]

\* the characters the regular expressions' \s matches
WhiteSpace == {" ", "\n"}

MatchesAt(s, p, i) ==
    /\ i + Len(p) - 1 <= Len(s)
    /\ \A k \in 1..Len(p) : s[i + k - 1] = p[k]

\* String.prototype.includes
Includes(s, p) == \E i \in 1..(Len(s) + 1) : MatchesAt(s, p, i)

StartsWith(s, p) == MatchesAt(s, p, 1)

EndsWith(s, p) == Len(p) <= Len(s) /\ MatchesAt(s, p, Len(s) - Len(p) + 1)

Min(S) == CHOOSE x \in S : \A y \in S : x <= y

\* s.replace(/p1|p2|.../gi, ""): the alternatives are tried in order at each place
RECURSIVE RemoveAll(_, _)
RemoveAll(s, pats) ==
    IF s = <<>> THEN <<>>
    ELSE LET hits == {k \in 1..Len(pats) : MatchesAt(ToLowerCase(s), pats[k], 1)}
         IN IF hits = {}
            THEN <<Head(s)>> \o RemoveAll(Tail(s), pats)
            ELSE RemoveAll(SubSeq(s, Len(pats[Min(hits)]) + 1, Len(s)), pats)

\* the length of the longest prefix of s made of characters of set
RECURSIVE RunLen(_, _)
RunLen(s, set) ==
    IF s # <<>> /\ Head(s) \in set THEN 1 + RunLen(Tail(s), set) ELSE 0

\* s.replace(/[set]{least,}/g, repl)
RECURSIVE CollapseRuns(_, _, _, _)
CollapseRuns(s, set, least, repl) ==
    IF s = <<>> THEN <<>>
    ELSE LET n == RunLen(s, set)
         IN IF n >= least
            THEN repl \o CollapseRuns(SubSeq(s, n + 1, Len(s)), set, least, repl)
            ELSE IF n > 0
            THEN SubSeq(s, 1, n) \o CollapseRuns(SubSeq(s, n + 1, Len(s)), set, least, repl)
            ELSE <<Head(s)>> \o CollapseRuns(Tail(s), set, least, repl)

\* String.prototype.trim
Trim(s) ==
    LET keep == {i \in 1..Len(s) : s[i] \notin WhiteSpace}
    IN IF keep = {} THEN <<>>
       ELSE SubSeq(s, Min(keep), CHOOSE i \in keep : \A j \in keep : j <= i)

(***************************************************************************)
(* Events assembler                                                        *)
(***************************************************************************)
\* /skip to (?:main |primary )?content/gi
SkipToContentPatterns ==
    <<<<"s", "k", "i", "p", " ", "t", "o", " ", "m", "a", "i", "n", " ", "c", "o", "n", "t", "e", "n", "t">>, <<"s", "k", "i", "p", " ", "t", "o", " ", "p", "r", "i", "m", "a", "r", "y", " ", "c", "o", "n", "t", "e", "n", "t">>, <<"s", "k", "i", "p", " ", "t", "o", " ", "c", "o", "n", "t", "e", "n", "t">>>>

\* /keyboard shortcuts?/gi
KeyboardShortcutPatterns == <<<<"k", "e", "y", "b", "o", "a", "r", "d", " ", "s", "h", "o", "r", "t", "c", "u", "t", "s">>, <<"k", "e", "y", "b", "o", "a", "r", "d", " ", "s", "h", "o", "r", "t", "c", "u", "t">>>>

cleanContent(text) ==
    Trim(CollapseRuns(
            CollapseRuns(
                RemoveAll(RemoveAll(text, SkipToContentPatterns), KeyboardShortcutPatterns),
                {"\n"}, 3, <<"\n", "\n">>),
            WhiteSpace, 2, <<" ">>))

BLOCKED_DOMAINS == {<<"w", "i", "k", "i", "p", "e", "d", "i", "a", ".", "o", "r", "g">>, <<"b", "r", "i", "g", "h", "t", "e", "o", "n", ".", "c", "o", "m">>, <<"f", "o", "r", "t", "i", "n", "e", "t", ".", "c", "o", "m">>, <<"c", "i", "s", "a", ".", "g", "o", "v">>}

Digits == {"0", "1", "2", "3", "4", "5", "6", "7", "8", "9"}

\* GENERIC_TITLE_PATTERNS.some((pattern) => pattern.test(title))
IsGenericTitle(title) ==
    LET t == ToLowerCase(title)
        recent == <<"r", "e", "c", "e", "n", "t", " ", "c", "y", "b", "e", "r", " ", "a", "t", "t", "a", "c", "k", "s", " ", "i", "n", " ">>
    IN \/ EndsWith(t, <<"|", " ", "t", "o", "p", "i", "c">>)
       \/ EndsWith(t, <<"|", " ", "h", "o", "m", "e", "l", "a", "n", "d", " ", "s", "e", "c", "u", "r", "i", "t", "y">>)
       \/ EndsWith(t, <<"|", " ", "f", "o", "r", "t", "i", "n", "e", "t">>)
       \/ t = <<"n", "a", "t", "u", "r", "a", "l", " ", "d", "i", "s", "a", "s", "t", "e", "r", "s">>
       \/ t = <<"c", "o", "u", "n", "t", "e", "r", "i", "n", "g", " ", "t", "e", "r", "r", "o", "r", "i", "s", "m">>
       \/ StartsWith(t, <<"m", "a", "r", "i", "t", "i", "m", "e", " ", "p", "i", "r", "a", "c", "y", ":">>)
       \/ StartsWith(t, <<"a", "s", "s", "e", "s", "s", "m", "e", "n", "t", " ", "o", "f", " ", "g", "l", "o", "b", "a", "l">>)
       \/ /\ StartsWith(t, recent)
          /\ Len(t) >= Len(recent) + 4
          /\ \A k \in 1..4 : t[Len(recent) + k] \in Digits

\* the pre-filter of the full assembler
PassesPreFilter(result) ==
    /\ ~ \E domain \in BLOCKED_DOMAINS : Includes(ToLowerCase(result.url), domain)
    /\ ~ IsGenericTitle(result.title)

\* result.url.split("?")[0]
BeforeQuery(url) ==
    LET q == {i \in 1..Len(url) : url[i] = "?"}
    IN IF q = {} THEN url ELSE SubSeq(url, 1, Min(q) - 1)

\* .replace(/\/$/, "")
StripTrailingSlash(s) ==
    IF s # <<>> /\ s[Len(s)] = "/" THEN SubSeq(s, 1, Len(s) - 1) ELSE s

\* mutant: the query string is kept in the key
NormalizeUrlKeepQuery(url) == ToLowerCase(StripTrailingSlash(url))

NormalizeUrl(url) == ToLowerCase(StripTrailingSlash(BeforeQuery(url)))

\* filter((x) => first occurrence of key(x)): seenUrls, and findIndex on titles
RECURSIVE FirstOccurrences(_, _, _)
FirstOccurrences(seq, keys, seen) ==
    IF seq = <<>> THEN <<>>
    ELSE IF keys[1] \in seen
         THEN FirstOccurrences(Tail(seq), Tail(keys), seen)
         ELSE <<Head(seq)>> \o FirstOccurrences(Tail(seq), Tail(keys), seen \cup {keys[1]})

NoCountry == <<>>

\* isValidLocation of the full assembler
isValidLocation(location) ==
    LET name == IF location.placeName # <<>> THEN location.placeName ELSE location.country
        lower == ToLowerCase(name)
    IN /\ ~ (Len(name) < 2)
       /\ lower # <<"r", "o", "u", "t", "e", "s">>
       /\ ~ (/\ name # <<>>
             /\ \A i \in 1..Len(name) : IsLetter(name[i]) \/ name[i] \in WhiteSpace
             /\ Len(name) < 3)
       /\ lower \notin {<<"u", "n", "k", "n", "o", "w", "n">>, <<"g", "l", "o", "b", "a", "l">>, <<"w", "o", "r", "l", "d", "w", "i", "d", "e">>, <<"n", "/", "a">>}

ThreatLevels == {"critical", "high", "medium", "low", "info"}

\* THREAT_LEVEL_PRIORITY[level] ?? 5
ThreatPriority(level) ==
    CASE level = "critical" -> 0
      [] level = "high" -> 1
      [] level = "medium" -> 2
      [] level = "low" -> 3
      [] level = "info" -> 4
      [] OTHER -> 5

\* the comparator of the final sort: negative when a goes first
Compare(variant, a, b) ==
    IF variant = "full" /\ ThreatPriority(a.threatLevel) # ThreatPriority(b.threatLevel)
    THEN ThreatPriority(a.threatLevel) - ThreatPriority(b.threatLevel)
    ELSE b.timestamp - a.timestamp

\* Array.prototype.sort: the stable sort by the comparator
RECURSIVE SortEvents(_, _)
SortEvents(variant, events) ==
    IF events = <<>> THEN <<>>
    ELSE LET n == Len(events)
             e == events[n]
             sorted == SortEvents(variant, SubSeq(events, 1, n - 1))
             before == Cardinality({i \in 1..Len(sorted) : Compare(variant, sorted[i], e) <= 0})
         IN SubSeq(sorted, 1, before) \o <<e>> \o SubSeq(sorted, before + 1, Len(sorted))

\* the results with their place in the input, which stands for the generated id
Indexed(results) == [i \in 1..Len(results) |-> [idx |-> i, result |-> results[i]]]

\* the event built for one result once classifyEvent has answered
BuildEvent(item, answer, now) ==
    [idx |-> item.idx,
     title |-> cleanContent(item.result.title),
     sourceUrl |-> item.result.url,
     threatLevel |-> answer.threatLevel,
     location |-> answer.location,
     timestamp |-> IF item.result.publishedDate # 0 THEN item.result.publishedDate ELSE now]

\* whether the item's callback returns an event rather than null
KeepsItem(variant, answer) ==
    /\ answer.hasLocation
    /\ variant = "full" => isValidLocation(answer.location)

\* the results that reach the classify stage
UniqueResults(variant, results) ==
    IF variant = "full"
    THEN LET filtered == SelectSeq(Indexed(results), LAMBDA it : PassesPreFilter(it.result))
         IN FirstOccurrences(filtered,
                [i \in 1..Len(filtered) |-> NormalizeUrl(filtered[i].result.url)], {})
    ELSE Indexed(results)

\* processSearchResults: the events it resolves to, given every classify answer
ProcessSearchResults(variant, results, oracle, now) ==
    LET unique == UniqueResults(variant, results)
        kept == SelectSeq(unique, LAMBDA it : KeepsItem(variant, oracle[it.idx]))
        validEvents == [i \in 1..Len(kept) |-> BuildEvent(kept[i], oracle[kept[i].idx], now)]
        uniqueEvents == FirstOccurrences(validEvents,
                            [i \in 1..Len(validEvents) |-> validEvents[i].title], {})
    IN SortEvents(variant, uniqueEvents)

\* Promise.all rejects as soon as one item's callback throws
Rejects(variant, results, oracle) ==
    LET unique == UniqueResults(variant, results)
    IN \E i \in 1..Len(unique) : oracle[unique[i].idx].throws

(***************************************************************************)
(* The inputs of the assembler                                             *)
(***************************************************************************)
\* search results per batch
MaxResults == 3

\* distinct publication times
MaxTime == 2

\* new Date() of the request: later than every publication time
Now == MaxTime + 1

Paris == [placeName |-> <<"P", "a", "r", "i", "s">>, country |-> <<"F", "r", "a", "n", "c", "e">>]

\* a classifyEvent answer
Answer(level, loc) == [throws |-> FALSE, threatLevel |-> level, hasLocation |-> TRUE, location |-> loc]

NoLocationAnswer(level) ==
    [throws |-> FALSE, threatLevel |-> level, hasLocation |-> FALSE,
     location |-> [placeName |-> <<>>, country |-> NoCountry]]

ThrowsAnswer ==
    [throws |-> TRUE, threatLevel |-> "info", hasLocation |-> FALSE,
     location |-> [placeName |-> <<>>, country |-> NoCountry]]

\* geocodeLocation never returns an empty placeName: it is the gazetteer key,
\* or feature.text || the name that was asked for
OracleLocations ==
    {Paris,
     [placeName |-> <<"U", "n", "k", "n", "o", "w", "n">>, country |-> NoCountry],
     [placeName |-> <<"G", "l", "o", "b", "a", "l">>, country |-> NoCountry],
     [placeName |-> <<"R", "o", "u", "t", "e", "s">>, country |-> <<"F", "r", "a", "n", "c", "e">>],
     [placeName |-> <<"N", "/", "A">>, country |-> NoCountry],
     [placeName |-> <<"W", "o", "r", "l", "d", "w", "i", "d", "e">>, country |-> NoCountry],
     [placeName |-> <<"U", "K">>, country |-> <<"U", "n", "i", "t", "e", "d", " ", "K", "i", "n", "g", "d", "o", "m">>],
     [placeName |-> <<"X">>, country |-> <<"F", "r", "a", "n", "c", "e">>]}

IndexChar == <<"1", "2", "3", "4", "5", "6", "7", "8", "9">>

\* a result that no other result of the batch duplicates
PlainResult(i, published) ==
    [title |-> <<"t", IndexChar[i]>>, url |-> <<"u", IndexChar[i]>>, publishedDate |-> published]

DedupTitles == {<<"x">>, <<"x", " ", " ", "s", "k", "i", "p", " ", "t", "o", " ", "c", "o", "n", "t", "e", "n", "t">>, <<"y">>}

DedupUrls == {<<"a", ".", "i", "o", "/", "n">>, <<"A", ".", "i", "o", "/", "n", "/", "?", "r", "e", "f", "=", "1">>, <<"a", ".", "i", "o", "/", "m">>}

\* batches whose titles and URLs collide
DedupBatches ==
    UNION {[1..n -> [title : DedupTitles, url : DedupUrls, publishedDate : {0}]] : n \in 1..MaxResults}

DedupOracles(n) == [1..n -> {Answer("medium", Paris), NoLocationAnswer("medium")}]

\* batches that the pre-filter thins out
PreFilterBatches ==
    UNION {[1..n -> [title : {<<"x">>, <<"U", "k", "r", "a", "i", "n", "e", " ", "|", " ", "T", "o", "p", "i", "c">>},
                     url : {<<"a", ".", "i", "o", "/", "n">>, <<"e", "n", ".", "W", "i", "k", "i", "p", "e", "d", "i", "a", ".", "o", "r", "g", "/", "n">>, <<"a", ".", "i", "o", "/", "n", "?", "x">>},
                     publishedDate : {0}]] : n \in 1..MaxResults}

PreFilterOracles(n) == [1..n -> {Answer("medium", Paris)}]

\* batches that differ in threat level and time
SortBatches ==
    UNION {{[i \in 1..n |-> PlainResult(i, times[i])] : times \in [1..n -> 0..MaxTime]}
            : n \in 1..MaxResults}

SortOracles(n) == [1..n -> {Answer(level, Paris) : level \in ThreatLevels}]

\* batches that differ in what classifyEvent answers
LocationBatches == {[i \in 1..n |-> PlainResult(i, 0)] : n \in 1..MaxResults}

LocationOracles(n) ==
    [1..n -> {Answer("high", loc) : loc \in OracleLocations}
             \cup {NoLocationAnswer("high"), ThrowsAnswer}]

AsmIdle ==
    /\ a_variant = "full"
    /\ a_results = <<>>
    /\ a_oracle = <<>>
    /\ a_pc = "idle"
    /\ a_resp = [status |-> 0, events |-> <<>>]

AsmInit ==
    /\ a_variant \in {"full", "basic"}
    /\ \/ a_results \in DedupBatches /\ a_oracle \in DedupOracles(Len(a_results))
       \/ a_results \in PreFilterBatches /\ a_oracle \in PreFilterOracles(Len(a_results))
       \/ a_results \in SortBatches /\ a_oracle \in SortOracles(Len(a_results))
       \/ a_results \in LocationBatches /\ a_oracle \in LocationOracles(Len(a_results))
    /\ a_pc = "pending"
    /\ a_resp = [status |-> 0, events |-> <<>>]

\* the events route once the searches have answered: 200 with the events
EventsRouteOk ==
    /\ a_pc = "pending"
    /\ ~ Rejects(a_variant, a_results, a_oracle)
    /\ a_resp' = [status |-> 200,
                  events |-> ProcessSearchResults(a_variant, a_results, a_oracle, Now)]
    /\ a_pc' = "done"
    /\ UNCHANGED <<a_variant, a_results, a_oracle>>
    /\ AsmFrame

\* the route's catch block: processSearchResults rejected
EventsRouteCatch ==
    /\ a_pc = "pending"
    /\ Rejects(a_variant, a_results, a_oracle)
    /\ a_resp' = [status |-> 500, events |-> <<>>]
    /\ a_pc' = "done"
    /\ UNCHANGED <<a_variant, a_results, a_oracle>>
    /\ AsmFrame

AsmNext ==
    \/ EventsRouteOk
    \/ EventsRouteCatch

(***************************************************************************)
(* Claims about the assembler                                              *)
(***************************************************************************)
Answered == a_pc = "done" /\ a_resp.status = 200

Events == a_resp.events

\* the results that take part in the URL deduplication of the variant
ReachesUrlStage(k) == a_variant = "full" => PassesPreFilter(a_results[k])

\* the results that take part in the title deduplication: classified and kept
ReachesTitleStage(k) ==
    /\ \E i \in 1..Len(UniqueResults(a_variant, a_results)) :
            UniqueResults(a_variant, a_results)[i].idx = k
    /\ KeepsItem(a_variant, a_oracle[k])

NoDuplicates ==
    /\ \A i, j \in 1..Len(Events) :
        i # j => /\ NormalizeUrl(Events[i].sourceUrl) # NormalizeUrl(Events[j].sourceUrl)
                 /\ Events[i].title # Events[j].title
    /\ \A i \in 1..Len(Events) : \A k \in 1..(Events[i].idx - 1) :
        /\ ReachesUrlStage(k) =>
                NormalizeUrl(a_results[k].url) # NormalizeUrl(Events[i].sourceUrl)
        /\ ReachesTitleStage(k) => cleanContent(a_results[k].title) # Events[i].title

\* C3: the list the assembler returns holds no two events whose source URLs
\* normalize to the same value and no two events with equal titles, and of
\* the results that collide the first in input order is the one kept.
C3_NoDuplicateUrlOrTitle == Answered => NoDuplicates

\* the assembler of part_006 alone satisfies C3
C3_HoldsForFullVariant == (Answered /\ a_variant = "full") => NoDuplicates

\* the full assembler dropped a later result with a colliding URL
C3_FullVariantWitness ==
    /\ Answered /\ a_variant = "full"
    /\ Len(a_results) = 3 /\ Len(Events) = 2
    /\ NormalizeUrl(a_results[1].url) = NormalizeUrl(a_results[2].url)
    /\ a_results[1].url # a_results[2].url

SortedByThreatThenTime ==
    \A i, j \in 1..Len(Events) :
        i < j => /\ ThreatPriority(Events[i].threatLevel) <= ThreatPriority(Events[j].threatLevel)
                 /\ ThreatPriority(Events[i].threatLevel) = ThreatPriority(Events[j].threatLevel)
                        => Events[i].timestamp >= Events[j].timestamp

\* C4: in the list the assembler returns, an event never precedes one of a
\* more severe threat level, and of two events of the same level the one
\* with the later timestamp comes first.
C4_SortedByThreatThenTime == Answered => SortedByThreatThenTime

\* the assembler of part_006 alone satisfies C4
C4_HoldsForFullVariant == (Answered /\ a_variant = "full") => SortedByThreatThenTime

PlaceholderNames == {<<"u", "n", "k", "n", "o", "w", "n">>, <<"g", "l", "o", "b", "a", "l">>, <<"w", "o", "r", "l", "d", "w", "i", "d", "e">>, <<"n", "/", "a">>, <<"r", "o", "u", "t", "e", "s">>}

IsPlaceholder(location) ==
    location.placeName = <<>> \/ ToLowerCase(location.placeName) \in PlaceholderNames

LocationsValid ==
    /\ \A i \in 1..Len(Events) : ~ IsPlaceholder(Events[i].location)
    /\ \A k \in 1..Len(a_results) :
        (~ a_oracle[k].hasLocation \/ IsPlaceholder(a_oracle[k].location))
            => \A i \in 1..Len(Events) : Events[i].idx # k

\* C5: every event the assembler returns has a location whose placeName is
\* non-empty and none of unknown, global, worldwide, n/a, routes; a result
\* classified without a location or with such a name is not in the output.
C5_LocationsValid == Answered => LocationsValid

\* the assembler of part_006 alone satisfies C5
C5_HoldsForFullVariant == (Answered /\ a_variant = "full") => LocationsValid

\* C9: when classifyEvent throws for one result of a batch, the request
\* still succeeds and returns the events of the other results.
C9_ItemFailureIsolated ==
    (a_pc = "done" /\ Rejects(a_variant, a_results, a_oracle))
        => /\ a_resp.status = 200
           /\ a_resp.events = ProcessSearchResults(a_variant, a_results, a_oracle, Now)


(***************************************************************************)
(* Deep research: the server-side wait loop (deepResearchViaProxy)         *)
(***************************************************************************)
\* const maxAttempts = 120
maxAttempts == 120

NoError == "(none)"

\* what the provider may report as the error of a failed task
ProviderErrors == {"quota exceeded", "source unavailable", NoError}

\* the answers of the proxy to one status fetch
StatusAnswers ==
    [kind : {"non2xx"}, http : {401, 500}, error : {NoError}]
    \cup [kind : {"queued", "running", "completed"}, http : {200}, error : {NoError}]
    \cup [kind : {"failed"}, http : {200}, error : ProviderErrors]

ResearchResult(summary) == [summary |-> summary, error |-> NoError]

\* mutant: the loop test lets one more attempt through
LoopContinuesOffByOne(i) == i <= maxAttempts

\* for (let i = 0; i < maxAttempts; i++)
LoopContinues(i) == i < maxAttempts

\* the result returned for a status that reports failed: the error is only logged
FailedResult(answer) == ResearchResult("Research did not complete successfully.")

\* mutant: the loop gives up without the synthetic result
TimedOutResultEmpty == ResearchResult("")

\* the result returned after the loop
TimedOutResult == ResearchResult("Research timed out.")

WaitIdle ==
    /\ w_pc = "idle"
    /\ w_i = 0
    /\ w_polls = 0
    /\ w_last = "none"
    /\ w_failed = [seen |-> FALSE, error |-> NoError, polls |-> 0]
    /\ w_result = ResearchResult("")

WaitInit ==
    /\ w_pc = "create"
    /\ w_i = 0
    /\ w_polls = 0
    /\ w_last = "none"
    /\ w_failed = [seen |-> FALSE, error |-> NoError, polls |-> 0]
    /\ w_result = ResearchResult("")

\* callViaProxy("/v1/deepresearch/tasks", ...) and the test of its result
WaitCreate ==
    /\ w_pc = "create"
    /\ \E created \in BOOLEAN :
        IF created
        THEN w_pc' = "loop" /\ UNCHANGED w_result
        ELSE w_pc' = "done" /\ w_result' = ResearchResult("Research failed. Please try again.")
    /\ UNCHANGED <<w_i, w_polls, w_last, w_failed>>
    /\ WaitFrame

\* one turn of the loop: the delay, the status fetch and the tests of its answer
WaitPoll ==
    /\ w_pc = "loop"
    /\ LoopContinues(w_i)
    /\ w_polls' = w_polls + 1
    /\ \/ \* fetch or response.json() rejects: the function has no catch block
          /\ w_pc' = "threw"
          /\ w_last' = "threw"
          /\ UNCHANGED <<w_i, w_failed, w_result>>
       \/ \E a \in StatusAnswers :
            /\ w_last' = a.kind
            /\ CASE a.kind = "completed" ->
                        /\ w_pc' = "done"
                        /\ w_result' = ResearchResult("report")
                        /\ UNCHANGED <<w_i, w_failed>>
                 [] a.kind = "failed" ->
                        /\ w_pc' = "done"
                        /\ w_result' = FailedResult(a)
                        /\ w_failed' = [seen |-> TRUE, error |-> a.error, polls |-> w_polls + 1]
                        /\ UNCHANGED w_i
                 [] OTHER ->
                        \* a non-2xx answer (continue) or a status that is not terminal
                        /\ w_i' = w_i + 1
                        /\ UNCHANGED <<w_pc, w_failed, w_result>>
    /\ WaitFrame

\* the loop test fails: return the synthetic result
WaitTimeout ==
    /\ w_pc = "loop"
    /\ ~ LoopContinues(w_i)
    /\ w_pc' = "done"
    /\ w_result' = TimedOutResult
    /\ UNCHANGED <<w_i, w_polls, w_last, w_failed>>
    /\ WaitFrame

WaitNext ==
    \/ WaitCreate
    \/ WaitPoll
    \/ WaitTimeout

(***************************************************************************)
(* Claims about the wait loop                                              *)
(***************************************************************************)
WaitEnded == w_pc \in {"done", "threw"}

\* C6: the wait loop issues at most 120 status polls; when the bound is
\* used up without a terminal status it returns the synthetic result
\* "Research timed out." instead of throwing; and the wait always ends.
C6_BoundedWait ==
    /\ [](w_polls <= 120)
    /\ []((w_pc = "done" /\ w_polls = 120 /\ w_last \notin {"completed", "failed"})
            => w_result = ResearchResult("Research timed out."))
    /\ []((w_polls = 120 /\ w_last \notin {"completed", "failed", "threw"}) => w_pc # "threw")
    /\ <>WaitEnded

\* 120 polls, none of them terminal, the last one a non-2xx answer
C6_Witness ==
    /\ w_pc = "done"
    /\ w_polls = 120
    /\ w_last = "non2xx"
    /\ w_result.summary = "Research timed out."

\* C7: when a status poll reports failed, no later poll is issued for the
\* task and the result handed to the caller carries the error the provider
\* reported.
C7_FailedEndsWaitWithError ==
    w_failed.seen => /\ w_polls = w_failed.polls
                     /\ w_pc = "done"
                     /\ w_result.error = w_failed.error

\* the first half of C7 holds of the wait loop: no poll follows a failed status
C7_NoPollAfterFailed == w_failed.seen => (w_polls = w_failed.polls /\ w_pc = "done")

(***************************************************************************)
(* Deep research: the status route and the client poller (EntitySearch)    *)
(***************************************************************************)
\* status polls of one task the model follows
MaxClientPolls == 4

\* tasks of one session the model follows: task ids are 1, 2, ...
MaxTasks == 2

\* deepResearchTaskId: null
NoTask == 0

\* getStatusViaProxy: the proxy's answer as the route's statusData
GetStatusViaProxy(answer) ==
    IF answer.kind = "non2xx"
    THEN [error |-> IF answer.http \in {401, 403}
                    THEN "Session expired. Please sign in again."
                    ELSE "API call failed: 500", status |-> "(absent)"]
    ELSE [error |-> answer.error, status |-> answer.kind]

\* GET /api/deepresearch/[taskId] in valyu mode: the JSON body and HTTP status
StatusRoute(answer) ==
    LET statusData == GetStatusViaProxy(answer)
    IN IF statusData.error # NoError
       THEN [http |-> 500, error |-> statusData.error, status |-> "(absent)"]
       ELSE [http |-> 200,
             \* response.error = statusData.error, which is absent on this path
             error |-> statusData.error,
             status |-> statusData.status]

PollIdle ==
    /\ c_taskId = NoTask
    /\ c_timer = NoTask
    /\ c_tasks = 0
    /\ c_inflight = [t \in 1..MaxTasks |-> 0]
    /\ c_polls = 0
    /\ c_error = NoError
    /\ c_result = "(none)"
    /\ c_mounted = FALSE

PollInit ==
    /\ c_taskId = NoTask
    /\ c_timer = NoTask
    /\ c_tasks = 0
    /\ c_inflight = [t \in 1..MaxTasks |-> 0]
    /\ c_polls = 0
    /\ c_error = NoError
    /\ c_result = "(none)"
    /\ c_mounted = TRUE

\* handleSearch (the Research button when no task is loading, the Enter key at
\* any time), the answer of POST /api/deepresearch with a new task id, and the
\* effect that follows: the cleanup clears the interval of the task before,
\* then pollStatus() at once and every 5 seconds
StartResearch ==
    /\ c_mounted
    /\ c_tasks < MaxTasks
    /\ c_polls < MaxClientPolls
    /\ c_tasks' = c_tasks + 1
    /\ c_taskId' = c_tasks + 1
    /\ c_timer' = c_tasks + 1
    /\ c_error' = NoError
    /\ c_result' = "(none)"
    /\ c_inflight' = [c_inflight EXCEPT ![c_tasks + 1] = @ + 1]
    /\ c_polls' = c_polls + 1
    /\ UNCHANGED c_mounted
    /\ PollFrame

\* accessToken changes while a task is polled: the effect runs again, its
\* cleanup clears the interval, then pollStatus() at once and a new interval
TokenChanges ==
    /\ c_mounted
    /\ c_taskId # NoTask
    /\ c_polls < MaxClientPolls
    /\ c_timer' = c_taskId
    /\ c_inflight' = [c_inflight EXCEPT ![c_taskId] = @ + 1]
    /\ c_polls' = c_polls + 1
    /\ UNCHANGED <<c_taskId, c_tasks, c_error, c_result, c_mounted>>
    /\ PollFrame

\* the interval fires: pollStatus() issues the next status request
IntervalTick ==
    /\ c_timer # NoTask
    /\ c_polls < MaxClientPolls
    /\ c_inflight' = [c_inflight EXCEPT ![c_timer] = @ + 1]
    /\ c_polls' = c_polls + 1
    /\ UNCHANGED <<c_taskId, c_timer, c_tasks, c_error, c_result, c_mounted>>
    /\ PollFrame

\* mutant: a completed status leaves the interval running
OnStatusKeepsInterval(data) ==
    IF data.error # NoError
    THEN /\ c_error' = data.error
         /\ c_taskId' = NoTask
         /\ c_timer' = NoTask
         /\ UNCHANGED c_result
    ELSE IF data.status = "completed"
    THEN /\ c_result' = "report"
         /\ c_taskId' = NoTask
         /\ UNCHANGED <<c_timer, c_error>>
    ELSE IF data.status = "failed"
    THEN /\ c_error' = "Research failed"
         /\ c_taskId' = NoTask
         /\ c_timer' = NoTask
         /\ UNCHANGED c_result
    ELSE UNCHANGED <<c_error, c_taskId, c_timer, c_result>>

\* pollStatus after await response.json(): the tests of the route's answer
OnStatus(data) ==
    IF data.error # NoError
    THEN /\ c_error' = data.error
         /\ c_taskId' = NoTask
         /\ c_timer' = NoTask
         /\ UNCHANGED c_result
    ELSE IF data.status = "completed"
    THEN /\ c_result' = "report"
         /\ c_taskId' = NoTask
         /\ c_timer' = NoTask
         /\ UNCHANGED c_error
    ELSE IF data.status = "failed"
    THEN /\ c_error' = "Research failed"
         /\ c_taskId' = NoTask
         /\ c_timer' = NoTask
         /\ UNCHANGED c_result
    ELSE UNCHANGED <<c_error, c_taskId, c_timer, c_result>>

\* a status request is answered by the route
StatusResponse ==
    /\ \E t \in 1..MaxTasks :
        /\ c_inflight[t] > 0
        /\ c_inflight' = [c_inflight EXCEPT ![t] = @ - 1]
    /\ \E a \in StatusAnswers : OnStatus(StatusRoute(a))
    /\ UNCHANGED <<c_polls, c_tasks, c_mounted>>
    /\ PollFrame

\* fetch rejects: the catch block of pollStatus only logs
StatusFetchFails ==
    /\ \E t \in 1..MaxTasks :
        /\ c_inflight[t] > 0
        /\ c_inflight' = [c_inflight EXCEPT ![t] = @ - 1]
    /\ UNCHANGED <<c_taskId, c_timer, c_tasks, c_polls, c_error, c_result, c_mounted>>
    /\ PollFrame

\* the component unmounts: both cleanups clear the interval
Unmount ==
    /\ c_mounted
    /\ c_mounted' = FALSE
    /\ c_timer' = NoTask
    /\ UNCHANGED <<c_taskId, c_tasks, c_inflight, c_polls, c_error, c_result>>
    /\ PollFrame

PollNext ==
    \/ StartResearch
    \/ TokenChanges
    \/ IntervalTick
    \/ StatusResponse
    \/ StatusFetchFails
    \/ Unmount

(***************************************************************************)
(* Claims about the client poller                                          *)
(***************************************************************************)
Non2xxErrors == {"Session expired. Please sign in again.", "API call failed: 500"}

\* C8: a non-2xx answer of the provider to a status poll never ends the
\* polling of a task: the poller is never stopped with the proxy's non-2xx
\* error as the outcome of the research.
C8_Non2xxKeepsPolling ==
    ~ (c_mounted /\ c_taskId = NoTask /\ c_timer = NoTask /\ c_error \in Non2xxErrors)

\* the wait loop keeps polling after a non-2xx answer, as C8 says
C8_HoldsForWaitLoop ==
    (w_last = "non2xx") => \/ w_pc = "loop"
                           \/ w_pc = "done" /\ w_polls = maxAttempts /\ w_result = TimedOutResult


\* C22: the client poller gives up after a fixed number of attempts: once the
\* attempts the model follows are used up on a task that is still running,
\* no interval is left to poll it again
C22_ClientPollingBounded ==
    (c_mounted /\ c_taskId # NoTask /\ c_polls = MaxClientPolls
        /\ \A t \in 1..MaxTasks : c_inflight[t] = 0)
        => c_timer = NoTask

\* the polling of the task has ended: a terminal status or an error was
\* observed (no task is current), the task id changed, or the component
\* was unmounted
PollingEnded(t) == t <= c_tasks /\ (c_taskId # t \/ ~ c_mounted)

\* a status request for the task is issued in this step
PollStartedFor(t) == c_inflight'[t] > c_inflight[t]

\* C23: once the polling of a task has ended, the interval does not poll
\* that task any more and no new status request is started for it
C23_EndedTaskNotPolled ==
    /\ [](\A t \in 1..MaxTasks : PollingEnded(t) => c_timer # t)
    /\ [][\A t \in 1..MaxTasks : PollingEnded(t) => ~ PollStartedFor(t)]_vars

\* the task id changed, and a completed answer then ended the polling while a
\* request of the second task was still in flight and attempts were left
C23_Witness ==
    /\ c_mounted
    /\ c_tasks = 2
    /\ c_taskId = NoTask
    /\ c_timer = NoTask
    /\ c_result = "report"
    /\ c_inflight[2] > 0
    /\ c_polls < MaxClientPolls

\* the answer to a status request of task t is handled in this step
ResponseHandledFor(t) == c_inflight'[t] < c_inflight[t]

\* C34: the answer to a status request of a task that a newer task has
\* superseded changes neither the result nor the error shown and does not
\* stop the interval of the newer task
C34_StaleResponseIgnored ==
    [][\A t \in 1..MaxTasks :
            (ResponseHandledFor(t) /\ t < c_tasks)
                => (c_result' = c_result /\ c_error' = c_error /\ c_timer' = c_timer)]_vars

(***************************************************************************)
(* The events hook (useEvents) in valyu mode, with the auth store          *)
(***************************************************************************)
\* events requests of one session the model follows
MaxRequests == 3

\* sign-ins of one session the model follows: tokens are numbered 1, 2, ...
MaxTokens == 2

\* accessToken: null
NoToken == 0

HookVariants == {"use-events", "part_010"}

\* the answers of POST /api/events the hook tells apart
EventsAnswers == {"ok", "reauth401", "error500"}

\* getAccessToken of the auth store
GetAccessToken(token, expired) == IF token = NoToken \/ expired THEN NoToken ELSE token

\* the test at the head of fetchEvents: whether a request is sent
FetchSends(variant, isInitialLoad, isAuthenticated) ==
    IF variant = "use-events"
    THEN isAuthenticated
    ELSE isInitialLoad \/ isAuthenticated

\* fetchEvents up to its fetch call, as seen from a state with the given auth
FetchEvents(isInitialLoad, isAuthenticated, token, requiresSignIn) ==
    IF FetchSends(h_variant, isInitialLoad, isAuthenticated)
    THEN /\ h_inflight' = [h_inflight EXCEPT ![token] = @ + 1]
         /\ h_sent' = h_sent + 1
         /\ h_error' = "(none)"
         /\ h_requiresSignIn' = requiresSignIn
    ELSE /\ h_requiresSignIn' = TRUE
         /\ UNCHANGED <<h_inflight, h_sent, h_error>>

\* nothing is fetched
NoFetch(requiresSignIn) ==
    /\ h_requiresSignIn' = requiresSignIn
    /\ UNCHANGED <<h_inflight, h_sent, h_error>>

\* the effects that run when isAuthenticated has changed (fetchEvents is a new
\* function): the fetch effect, the interval effect, the requiresSignIn effect
AuthEffects(isAuthenticated, token) ==
    /\ h_timer' = isAuthenticated
    /\ LET requiresSignIn == IF isAuthenticated THEN FALSE ELSE h_requiresSignIn
       IN IF h_variant = "use-events"
          THEN FetchEvents(FALSE, isAuthenticated, token, requiresSignIn)
          ELSE IF ~ h_initialFetch
          THEN FetchEvents(TRUE, isAuthenticated, token, requiresSignIn)
          ELSE NoFetch(requiresSignIn)

HookIdle ==
    /\ h_variant = "use-events"
    /\ h_pc = "idle"
    /\ h_isAuthenticated = FALSE
    /\ h_token = NoToken
    /\ h_expired = FALSE
    /\ h_issued = 0
    /\ h_timer = FALSE
    /\ h_inflight = [t \in 0..MaxTokens |-> 0]
    /\ h_rejected = {}
    /\ h_sent = 0
    /\ h_requiresSignIn = FALSE
    /\ h_error = "(none)"
    /\ h_initialFetch = FALSE

\* the page before the hook mounts: signed in from storage, or signed out
HookInit ==
    /\ h_variant \in HookVariants
    /\ h_pc = "unmounted"
    /\ \E signedIn \in BOOLEAN :
        /\ h_isAuthenticated = signedIn
        /\ h_token = (IF signedIn THEN 1 ELSE NoToken)
        /\ h_issued = (IF signedIn THEN 1 ELSE 0)
    /\ h_expired = FALSE
    /\ h_timer = FALSE
    /\ h_inflight = [t \in 0..MaxTokens |-> 0]
    /\ h_rejected = {}
    /\ h_sent = 0
    /\ h_requiresSignIn = FALSE
    /\ h_error = "(none)"
    /\ h_initialFetch = FALSE

\* mount: the initial fetch and the interval effect
HookMount ==
    /\ h_pc = "unmounted"
    /\ h_pc' = "mounted"
    /\ AuthEffects(h_isAuthenticated, GetAccessToken(h_token, h_expired))
    /\ UNCHANGED <<h_variant, h_isAuthenticated, h_token, h_expired, h_issued, h_rejected, h_initialFetch>>
    /\ HookFrame

\* the refresh interval fires
HookTick ==
    /\ h_pc = "mounted"
    /\ h_timer
    /\ h_sent < MaxRequests
    /\ FetchEvents(FALSE, h_isAuthenticated, GetAccessToken(h_token, h_expired), h_requiresSignIn)
    /\ UNCHANGED <<h_variant, h_pc, h_isAuthenticated, h_token, h_expired, h_issued, h_timer, h_rejected, h_initialFetch>>
    /\ HookFrame

\* refresh(): the manual refresh
HookRefresh ==
    /\ h_pc = "mounted"
    /\ h_sent < MaxRequests
    /\ FetchEvents(FALSE, h_isAuthenticated, GetAccessToken(h_token, h_expired), h_requiresSignIn)
    /\ UNCHANGED <<h_variant, h_pc, h_isAuthenticated, h_token, h_expired, h_issued, h_timer, h_rejected, h_initialFetch>>
    /\ HookFrame

\* the rest of fetchEvents: the answer to a request that carried token t
HookOnAnswer(t, answer) ==
    IF h_variant = "use-events"
    THEN /\ h_requiresSignIn' = (h_requiresSignIn \/ answer = "reauth401")
         /\ h_error' = CASE answer = "reauth401" -> "Please sign in to view events."
                         [] answer = "error500" -> "Failed to fetch events"
                         [] OTHER -> h_error
         /\ UNCHANGED h_initialFetch
    ELSE /\ h_error' = (IF answer = "ok" THEN h_error ELSE "Failed to fetch events")
         /\ h_initialFetch' = (h_initialFetch \/ answer = "ok")
         /\ UNCHANGED h_requiresSignIn

\* POST /api/events answers one request in flight
HookResponse ==
    /\ h_pc = "mounted"
    /\ \E t \in 0..MaxTokens :
        /\ h_inflight[t] > 0
        /\ h_inflight' = [h_inflight EXCEPT ![t] = @ - 1]
        /\ \E answer \in EventsAnswers :
            \* the route answers a request without a token with 401
            /\ t = NoToken => answer = "reauth401"
            /\ h_rejected' = (IF answer = "reauth401" THEN h_rejected \cup {t} ELSE h_rejected)
            /\ HookOnAnswer(t, answer)
    /\ UNCHANGED <<h_variant, h_pc, h_isAuthenticated, h_token, h_expired, h_issued, h_timer, h_sent>>
    /\ HookFrame

\* the access token passes its expiry time
TokenExpires ==
    /\ h_token # NoToken
    /\ ~ h_expired
    /\ h_expired' = TRUE
    /\ UNCHANGED <<h_variant, h_pc, h_isAuthenticated, h_token, h_issued, h_timer, h_inflight,
                   h_rejected, h_sent, h_requiresSignIn, h_error, h_initialFetch>>
    /\ HookFrame

\* signIn of the auth store with a new token, and the effects that follow
HookSignIn ==
    /\ h_pc = "mounted"
    /\ h_issued < MaxTokens
    /\ h_sent < MaxRequests
    /\ h_issued' = h_issued + 1
    /\ h_token' = h_issued + 1
    /\ h_expired' = FALSE
    /\ h_isAuthenticated' = TRUE
    /\ IF h_isAuthenticated
       THEN /\ NoFetch(h_requiresSignIn)
            /\ UNCHANGED h_timer
       ELSE AuthEffects(TRUE, h_issued + 1)
    /\ UNCHANGED <<h_variant, h_pc, h_rejected, h_initialFetch>>
    /\ HookFrame

\* signOut of the auth store, and the effects that follow
HookSignOut ==
    /\ h_pc = "mounted"
    /\ h_isAuthenticated
    /\ h_sent < MaxRequests
    /\ h_token' = NoToken
    /\ h_expired' = FALSE
    /\ h_isAuthenticated' = FALSE
    /\ AuthEffects(FALSE, NoToken)
    /\ UNCHANGED <<h_variant, h_pc, h_issued, h_rejected, h_initialFetch>>
    /\ HookFrame

HookNext ==
    \/ HookMount
    \/ HookTick
    \/ HookRefresh
    \/ HookResponse
    \/ TokenExpires
    \/ HookSignIn
    \/ HookSignOut

(***************************************************************************)
(* Claims about the events hook                                            *)
(***************************************************************************)
\* the tokens a step sends a request with
SentNow(t) == h_inflight'[t] > h_inflight[t]

\* C11: once an events request has been answered with requiresReauth, no
\* step of the hook sends another events request with the access token that
\* request carried.
C11_NoResendAfterReauth ==
    [][\A t \in 1..MaxTokens : t \in h_rejected => ~ SentNow(t)]_vars


(***************************************************************************)
(* The searches of one events request (POST /api/events, searchEvents)     *)
(***************************************************************************)
\* search queries of one events request
MaxQueries == 3

\* what the proxy (or, self-hosted, the SDK) does with one search call
SearchOutcomes == {"results", "no_results", "401", "403", "500", "network"}

\* searchEvents for query i: the promise it returns, once settled
SearchEvents(mode, i, outcome) ==
    CASE outcome = "results" ->
            [state |-> "fulfilled", results |-> <<i>>, requiresReauth |-> FALSE]
      [] outcome = "no_results" ->
            [state |-> "fulfilled", results |-> <<>>, requiresReauth |-> FALSE]
      [] outcome \in {"401", "403"} /\ mode = "proxy" ->
            \* callViaProxy reports requiresReauth
            [state |-> "fulfilled", results |-> <<>>, requiresReauth |-> TRUE]
      [] OTHER ->
            \* throw new Error(proxyResult.error); self-hosted: the catch block rethrows
            [state |-> "rejected", results |-> <<>>, requiresReauth |-> FALSE]

Pending == [state |-> "pending", results |-> <<>>, requiresReauth |-> FALSE]

NoResponse == [status |-> 0, requiresReauth |-> FALSE, results |-> <<>>]

RECURSIVE FlatMapResults(_, _)
\* searchResultsArrays.flatMap((r) => r.results)
FlatMapResults(searches, i) ==
    IF i > Len(searches) THEN <<>>
    ELSE searches[i].results \o FlatMapResults(searches, i + 1)

SearchIdle ==
    /\ q_mode = "proxy"
    /\ q_pc = "idle"
    /\ q_searches = <<>>
    /\ q_resp = NoResponse

\* the route has issued its searches and awaits Promise.all
SearchInit ==
    /\ q_mode \in {"proxy", "sdk"}
    /\ q_pc = "waiting"
    /\ \E n \in 1..MaxQueries : q_searches = [i \in 1..n |-> Pending]
    /\ q_resp = NoResponse

\* one search settles
SearchSettles ==
    /\ q_pc \in {"waiting", "done"}
    /\ \E i \in 1..Len(q_searches) :
        /\ q_searches[i].state = "pending"
        /\ \E outcome \in SearchOutcomes :
            q_searches' = [q_searches EXCEPT ![i] = SearchEvents(q_mode, i, outcome)]
    /\ UNCHANGED <<q_mode, q_pc, q_resp>>
    /\ SearchFrame

\* Promise.all rejects with the first rejection: the route's catch block
PostCatch ==
    /\ q_pc = "waiting"
    /\ \E i \in 1..Len(q_searches) : q_searches[i].state = "rejected"
    /\ q_pc' = "done"
    /\ q_resp' = [status |-> 500, requiresReauth |-> FALSE, results |-> <<>>]
    /\ UNCHANGED <<q_mode, q_searches>>
    /\ SearchFrame

\* every search is fulfilled and one of them reports requiresReauth
PostReauth ==
    /\ q_pc = "waiting"
    /\ \A i \in 1..Len(q_searches) : q_searches[i].state = "fulfilled"
    /\ \E i \in 1..Len(q_searches) : q_searches[i].requiresReauth
    /\ q_pc' = "done"
    /\ q_resp' = [status |-> 401, requiresReauth |-> TRUE, results |-> <<>>]
    /\ UNCHANGED <<q_mode, q_searches>>
    /\ SearchFrame

\* every search is fulfilled: the results go to processSearchResults
PostOk ==
    /\ q_pc = "waiting"
    /\ \A i \in 1..Len(q_searches) :
        q_searches[i].state = "fulfilled" /\ ~ q_searches[i].requiresReauth
    /\ q_pc' = "done"
    /\ q_resp' = [status |-> 200, requiresReauth |-> FALSE,
                  results |-> FlatMapResults(q_searches, 1)]
    /\ UNCHANGED <<q_mode, q_searches>>
    /\ SearchFrame

SearchNext ==
    \/ SearchSettles
    \/ PostCatch
    \/ PostReauth
    \/ PostOk

(***************************************************************************)
(* Claims about the searches of an events request                          *)
(***************************************************************************)
\* C15: when one search of an events request has failed with a network or
\* 5xx error, another has delivered results and none has reported an auth
\* error, the request is answered 200 with the results of the searches that
\* succeeded.
C15_SearchFailureIsolated ==
    (/\ q_pc = "done"
     /\ \A i \in 1..Len(q_searches) : q_searches[i].state # "pending"
     /\ \E i \in 1..Len(q_searches) : q_searches[i].state = "rejected"
     /\ \E i \in 1..Len(q_searches) : q_searches[i].results # <<>>
     /\ \A i \in 1..Len(q_searches) : ~ q_searches[i].requiresReauth)
    => /\ q_resp.status = 200
       /\ q_resp.results = FlatMapResults(q_searches, 1)


(***************************************************************************)
(* The entity research stream (streamEntityResearch + SSE route GET)       *)
(***************************************************************************)
\* the relay's mapping of one provider stream message to chunks
RelayEntity(kind, id) ==
    IF kind = "content" THEN <<Chunk("content", id)>>
    ELSE IF kind = "search_results" THEN <<Chunk("sources", id)>>
    ELSE <<>>

\* proxied mode: the results of the one callViaProxy
EntityProxyResults ==
    [success : {TRUE}, data : {"object"}, contents : BOOLEAN,
     search_results : {"absent", "list", "malformed"}]
    \cup [success : {TRUE}, data : {"null"}, contents : {FALSE}, search_results : {"absent"}]
    \cup [success : {FALSE}, data : {"null"}, contents : {FALSE}, search_results : {"absent"}]

\* the chunks of a proxied answer that are yielded before the try block ends
EntityProxyChunks(r, id) ==
    (IF r.contents THEN <<Chunk("content", id)>> ELSE <<>>)
    \o (IF r.search_results = "list" THEN <<Chunk("sources", id + 1)>> ELSE <<>>)

\* mutant: the failure branch without its return statement: the read of
\* data.contents throws and the catch block yields a second error chunk
EntityFailedTwice(out) == Append(Append(out, Chunk("error", 0)), Chunk("error", 0))

\* if (!proxyResult.success) { yield error; return; }
EntityFailed(out) == Append(out, Chunk("error", 0))

EntityIdle ==
    /\ e_mode = "proxy"
    /\ e_hasKey = FALSE
    /\ e_pc = "idle"
    /\ e_out = <<>>
    /\ e_closed = FALSE
    /\ e_count = 0

EntityInit ==
    /\ e_mode \in {"proxy", "sdk"}
    /\ e_hasKey \in BOOLEAN
    /\ e_pc = "start"
    /\ e_out = <<>>
    /\ e_closed = FALSE
    /\ e_count = 0

\* proxied mode: the call, its test and the relay of the answer
EntityProxy ==
    /\ e_mode = "proxy"
    /\ e_pc = "start"
    /\ \E r \in EntityProxyResults :
        /\ e_count' = Len(EntityProxyChunks(r, 1))
        /\ IF ~ r.success
           THEN e_out' = EntityFailed(e_out) /\ e_pc' = "returned"
           ELSE IF r.data = "null" \/ r.search_results = "malformed"
           THEN \* data.contents or search_results.map throws inside the try block
                /\ e_out' = GenCatch(Enqueue(e_out, EntityProxyChunks(r, 1)))
                /\ e_pc' = "returned"
           ELSE /\ e_out' = Enqueue(e_out, EntityProxyChunks(r, 1))
                /\ e_pc' = "e_done"
    /\ UNCHANGED <<e_mode, e_hasKey, e_closed>>
    /\ EntityFrame

\* self-hosted mode: getValyuClient() runs outside the generator's try block
EntityGetClient ==
    /\ e_mode = "sdk"
    /\ e_pc = "start"
    /\ IF e_hasKey
       THEN /\ e_pc' = "call"
            /\ UNCHANGED <<e_out, e_closed>>
       ELSE \* the generator throws; the route's catch enqueues and closes
            /\ e_out' = RouteCatch(e_out)
            /\ e_closed' = TRUE
            /\ e_pc' = "closed"
    /\ UNCHANGED <<e_mode, e_hasKey, e_count>>
    /\ EntityFrame

\* await valyu.answer(query, {streaming: true})
EntityAnswer ==
    /\ e_pc = "call"
    /\ \E outcome \in {"iterable", "plain", "throws"} :
        CASE outcome = "iterable" -> e_pc' = "iter" /\ UNCHANGED e_out
          [] outcome = "plain" -> e_pc' = "e_done" /\ UNCHANGED e_out
          [] outcome = "throws" -> e_pc' = "returned" /\ e_out' = GenCatch(e_out)
    /\ UNCHANGED <<e_mode, e_hasKey, e_closed, e_count>>
    /\ EntityFrame

\* one turn of the for-await loop over the provider's stream
EntityIterate ==
    /\ e_pc = "iter"
    /\ \/ \E kind \in SdkKinds :
            /\ e_count < MaxChunks
            /\ e_count' = e_count + 1
            /\ e_out' = Enqueue(e_out, RelayEntity(kind, e_count + 1))
            /\ e_pc' = "iter"
       \/ \* the provider's stream ends
          /\ e_pc' = "e_done"
          /\ UNCHANGED <<e_count, e_out>>
       \/ \* the provider's stream throws
          /\ e_pc' = "returned"
          /\ e_out' = GenCatch(e_out)
          /\ UNCHANGED e_count
    /\ UNCHANGED <<e_mode, e_hasKey, e_closed>>
    /\ EntityFrame

\* yield { type: "done" } at the end of either try block
EntityDone ==
    /\ e_pc = "e_done"
    /\ e_out' = YieldDone(e_out)
    /\ e_pc' = "returned"
    /\ UNCHANGED <<e_mode, e_hasKey, e_closed, e_count>>
    /\ EntityFrame

\* the generator has returned: the route's loop ends and the controller closes
EntityRouteClose ==
    /\ e_pc = "returned"
    /\ e_closed' = TRUE
    /\ e_pc' = "closed"
    /\ UNCHANGED <<e_mode, e_hasKey, e_out, e_count>>
    /\ EntityFrame

EntityNext ==
    \/ EntityProxy
    \/ EntityGetClient
    \/ EntityAnswer
    \/ EntityIterate
    \/ EntityDone
    \/ EntityRouteClose

(***************************************************************************)
(* Claims about the entity research stream                                 *)
(***************************************************************************)
\* C16: in every run of the entity research stream the chunks delivered to
\* the consumer hold at most one terminal chunk (done or error), it is the
\* last chunk, and a stream that has closed holds exactly one.
C16_EntityOneTerminalLast ==
    /\ Cardinality(Terminals(e_out)) <= 1
    /\ \A i \in Terminals(e_out) : i = Len(e_out)
    /\ e_closed => Cardinality(Terminals(e_out)) = 1

\* a closed proxied stream whose call failed, and a closed self-hosted stream
\* without an API key, each hold the error chunk alone
C16_Witness ==
    /\ e_closed
    /\ e_out = <<Chunk("error", 0)>>
    /\ e_mode = "proxy"


(***************************************************************************)
(* The events store (useEventsStore)                                       *)
(***************************************************************************)
\* the cap of the store: slice(0, 1000) in the source, scaled down
StoreCap == 3

\* the events the lists are made of
EventPool ==
    { [id |-> 1, title |-> <<"P", "a", "r", "i", "s", " ", "r", "i", "o", "t">>, summary |-> <<"x">>, hasPlace |-> TRUE,
       placeName |-> <<"P", "a", "r", "i", "s">>, country |-> <<"F", "r", "a", "n", "c", "e">>,
       category |-> "protest", threatLevel |-> "high", timestamp |-> 1],
      [id |-> 2, title |-> <<"F", "l", "o", "o", "d">>, summary |-> <<"R", "a", "i", "n", " ", "i", "n", " ", "P", "A", "R", "I", "S">>, hasPlace |-> TRUE,
       placeName |-> <<"L", "y", "o", "n">>, country |-> <<"F", "r", "a", "n", "c", "e">>,
       category |-> "disaster", threatLevel |-> "critical", timestamp |-> 2],
      [id |-> 3, title |-> <<"Q", "u", "a", "k", "e">>, summary |-> <<"y">>, hasPlace |-> FALSE,
       placeName |-> <<>>, country |-> <<>>,
       category |-> "disaster", threatLevel |-> "high", timestamp |-> 2] }

\* the lists handed to setEvents and addEvents: every short list, and one
\* list longer than the cap per event
EventLists ==
    UNION {[1..n -> EventPool] : n \in 0..2}
    \cup {[i \in 1..(StoreCap + 1) |-> e] : e \in EventPool}

NoTimeRange == [set |-> FALSE, start |-> 0, end |-> 0]

TimeRanges == {NoTimeRange, [set |-> TRUE, start |-> 2, end |-> 2]}

CategoryLists == {<<>>, <<"disaster">>}

ThreatLevelLists == {<<>>, <<"high">>}

SearchQueries == {<<>>, <<" ">>, <<"R", "i", "S", " ">>}

\* Array.prototype.includes
ArrayIncludes(list, x) == \E i \in 1..Len(list) : list[i] = x

\* Array.prototype.slice(0, n)
Slice(list, n) == SubSeq(list, 1, IF Len(list) < n THEN Len(list) ELSE n)

\* mutant: the query is compared as typed
MatchesQueryAsTyped(event, searchQuery) ==
    LET query == searchQuery
    IN \/ Includes(ToLowerCase(event.title), query)
       \/ Includes(ToLowerCase(event.summary), query)
       \/ event.hasPlace /\ Includes(ToLowerCase(event.placeName), query)
       \/ event.hasPlace /\ Includes(ToLowerCase(event.country), query)

\* the search filter of applyFilters: the fields are lower-cased, and so is the query
MatchesQuery(event, searchQuery) ==
    LET query == ToLowerCase(searchQuery)
    IN \/ Includes(ToLowerCase(event.title), query)
       \/ Includes(ToLowerCase(event.summary), query)
       \/ event.hasPlace /\ Includes(ToLowerCase(event.placeName), query)
       \/ event.hasPlace /\ Includes(ToLowerCase(event.country), query)

\* the filters of applyFilters, one after the other
KeepsEvent(event, timeRange, categoryFilters, threatLevelFilters, searchQuery) ==
    /\ timeRange.set => (event.timestamp >= timeRange.start /\ event.timestamp <= timeRange.end)
    /\ Len(categoryFilters) > 0 => ArrayIncludes(categoryFilters, event.category)
    /\ Len(threatLevelFilters) > 0 => ArrayIncludes(threatLevelFilters, event.threatLevel)
    /\ Trim(searchQuery) # <<>> => MatchesQuery(event, searchQuery)

\* filtered.sort(...) of applyFilters
StoreSort(events) == SortEvents("full", events)

\* applyFilters: the filteredEvents it sets
ApplyFilters(events, timeRange, categoryFilters, threatLevelFilters, searchQuery) ==
    StoreSort(SelectSeq(events, LAMBDA e :
        KeepsEvent(e, timeRange, categoryFilters, threatLevelFilters, searchQuery)))

\* mutant: the new events are put behind the existing ones
MergeBehind(new, old) == Slice(old \o new, StoreCap)

\* [...events, ...state.events].slice(0, 1000)
Merge(new, old) == Slice(new \o old, StoreCap)

\* the latest call, kept to state what addEvents did: its argument and the
\* events held before it
Called(op, arg, before) == st_call' = [op |-> op, arg |-> arg, before |-> before]

StoreIdle ==
    /\ st_events = <<>>
    /\ st_filtered = <<>>
    /\ st_timeRange = NoTimeRange
    /\ st_categoryFilters = <<>>
    /\ st_threatLevelFilters = <<>>
    /\ st_searchQuery = <<>>
    /\ st_call = [op |-> "idle", arg |-> <<>>, before |-> <<>>]

\* the store as created
StoreInit ==
    /\ st_events = <<>>
    /\ st_filtered = <<>>
    /\ st_timeRange = NoTimeRange
    /\ st_categoryFilters = <<>>
    /\ st_threatLevelFilters = <<>>
    /\ st_searchQuery = <<>>
    /\ st_call = [op |-> "create", arg |-> <<>>, before |-> <<>>]

\* set(...) of the events followed by get().applyFilters()
SetStoreEvents(events) ==
    /\ st_events' = events
    /\ st_filtered' = ApplyFilters(events, st_timeRange, st_categoryFilters,
                                   st_threatLevelFilters, st_searchQuery)
    /\ UNCHANGED <<st_timeRange, st_categoryFilters, st_threatLevelFilters, st_searchQuery>>

\* mutant: filteredEvents is computed from the filters held before the call
SetStoreFiltersStale(timeRange, categoryFilters, threatLevelFilters, searchQuery) ==
    /\ st_timeRange' = timeRange
    /\ st_categoryFilters' = categoryFilters
    /\ st_threatLevelFilters' = threatLevelFilters
    /\ st_searchQuery' = searchQuery
    /\ st_filtered' = ApplyFilters(st_events, st_timeRange, st_categoryFilters,
                                   st_threatLevelFilters, st_searchQuery)
    /\ UNCHANGED st_events

\* set(...) of the filters followed by get().applyFilters()
SetStoreFilters(timeRange, categoryFilters, threatLevelFilters, searchQuery) ==
    /\ st_timeRange' = timeRange
    /\ st_categoryFilters' = categoryFilters
    /\ st_threatLevelFilters' = threatLevelFilters
    /\ st_searchQuery' = searchQuery
    /\ st_filtered' = ApplyFilters(st_events, timeRange, categoryFilters,
                                   threatLevelFilters, searchQuery)
    /\ UNCHANGED st_events

setEvents ==
    /\ \E events \in EventLists : SetStoreEvents(events)
    /\ Called("other", <<>>, <<>>)
    /\ StoreFrame

addEvent ==
    /\ \E event \in EventPool : SetStoreEvents(Merge(<<event>>, st_events))
    /\ Called("other", <<>>, <<>>)
    /\ StoreFrame

addEvents ==
    /\ \E events \in EventLists :
        /\ SetStoreEvents(Merge(events, st_events))
        /\ Called("addEvents", events, st_events)
    /\ StoreFrame

setTimeRange ==
    /\ \E timeRange \in TimeRanges :
        SetStoreFilters(timeRange, st_categoryFilters, st_threatLevelFilters, st_searchQuery)
    /\ Called("other", <<>>, <<>>)
    /\ StoreFrame

setCategoryFilters ==
    /\ \E categoryFilters \in CategoryLists :
        SetStoreFilters(st_timeRange, categoryFilters, st_threatLevelFilters, st_searchQuery)
    /\ Called("other", <<>>, <<>>)
    /\ StoreFrame

setThreatLevelFilters ==
    /\ \E threatLevelFilters \in ThreatLevelLists :
        SetStoreFilters(st_timeRange, st_categoryFilters, threatLevelFilters, st_searchQuery)
    /\ Called("other", <<>>, <<>>)
    /\ StoreFrame

setSearchQuery ==
    /\ \E searchQuery \in SearchQueries :
        SetStoreFilters(st_timeRange, st_categoryFilters, st_threatLevelFilters, searchQuery)
    /\ Called("other", <<>>, <<>>)
    /\ StoreFrame

clearFilters ==
    /\ SetStoreFilters(NoTimeRange, <<>>, <<>>, <<>>)
    /\ Called("other", <<>>, <<>>)
    /\ StoreFrame

\* C17: addEvents(new) on a store holding old leaves min(cap, |new| + |old|)
\* events, the elements of new first and those of old behind them, the tail of
\* old being what is dropped
C17_AddEventsKeepsNewFirst ==
    st_call.op = "addEvents" =>
        LET new == st_call.arg
            old == st_call.before
            total == Len(new) + Len(old)
        IN /\ Len(st_events) = (IF total < StoreCap THEN total ELSE StoreCap)
           /\ \A i \in 1..Len(st_events) :
                st_events[i] = (IF i <= Len(new) THEN new[i] ELSE old[i - Len(new)])

\* addEvents has put new events in front of old ones and dropped the tail of old
C17_Witness ==
    /\ st_call.op = "addEvents"
    /\ Len(st_call.arg) > 0
    /\ Len(st_call.arg) < StoreCap
    /\ Len(st_call.before) = StoreCap
    /\ st_call.arg[1] # st_call.before[1]
    /\ Len(st_events) = StoreCap

\* C18: the store never holds more events than the cap
C18_AtMostCap == Len(st_events) <= StoreCap

\* a comes no later than b in the order of filteredEvents: a lower threat
\* priority first, and within one priority the later timestamp first
InDisplayOrder(a, b) ==
    \/ ThreatPriority(a.threatLevel) < ThreatPriority(b.threatLevel)
    \/ /\ ThreatPriority(a.threatLevel) = ThreatPriority(b.threatLevel)
       /\ a.timestamp >= b.timestamp

\* C19: after every call filteredEvents is the current events filtered by the
\* current filters, in ascending threat priority and then descending timestamp
C19_FilteredNeverStale ==
    /\ st_filtered = ApplyFilters(st_events, st_timeRange, st_categoryFilters,
                                  st_threatLevelFilters, st_searchQuery)
    /\ \A i, j \in 1..Len(st_filtered) : i < j => InDisplayOrder(st_filtered[i], st_filtered[j])

\* filters are set, some events are filtered out and the rest is reordered
C19_Witness ==
    /\ st_call.op = "other"
    /\ st_searchQuery # <<>>
    /\ st_timeRange.set
    /\ Len(st_filtered) >= 2
    /\ Len(st_filtered) < Len(st_events)
    /\ st_events[1].threatLevel = "high"
    /\ st_filtered[1].threatLevel = "critical"

\* the text holds the query somewhere, letter case apart
HoldsIgnoringCase(text, query) ==
    \E k \in 0..(Len(text) - Len(query)) :
        \A i \in 1..Len(query) : LowerChar(text[k + i]) = LowerChar(query[i])

IsBlank(text) == \A i \in 1..Len(text) : text[i] \in WhiteSpace

\* the event passes every filter that is active
PassesActiveFilters(event) ==
    /\ st_timeRange.set =>
        (st_timeRange.start <= event.timestamp /\ event.timestamp <= st_timeRange.end)
    /\ st_categoryFilters # <<>> =>
        (\E i \in 1..Len(st_categoryFilters) : st_categoryFilters[i] = event.category)
    /\ st_threatLevelFilters # <<>> =>
        (\E i \in 1..Len(st_threatLevelFilters) : st_threatLevelFilters[i] = event.threatLevel)
    /\ ~ IsBlank(st_searchQuery) =>
        \/ HoldsIgnoringCase(event.title, st_searchQuery)
        \/ HoldsIgnoringCase(event.summary, st_searchQuery)
        \/ event.hasPlace /\ HoldsIgnoringCase(event.placeName, st_searchQuery)
        \/ event.hasPlace /\ HoldsIgnoringCase(event.country, st_searchQuery)

Occurrences(list, event) == Cardinality({i \in 1..Len(list) : list[i] = event})

\* C20: an event of the store is in filteredEvents exactly when it passes every
\* active filter, and then as often as the store holds it
C20_FilteredIffPasses ==
    \A event \in EventPool :
        Occurrences(st_filtered, event) =
            (IF PassesActiveFilters(event) THEN Occurrences(st_events, event) ELSE 0)

\* a query typed with capitals keeps the event whose title holds it in another
\* case and drops an event of the store that holds it nowhere
C20_Witness ==
    /\ \E i \in 1..Len(st_searchQuery) : IsUpper(st_searchQuery[i])
    /\ ~ IsBlank(st_searchQuery)
    /\ \E i \in 1..Len(st_filtered) : HoldsIgnoringCase(st_filtered[i].title, st_searchQuery)
    /\ \E i \in 1..Len(st_events) : ~ PassesActiveFilters(st_events[i])
    /\ st_threatLevelFilters # <<>>

StoreNext ==
    \/ setEvents
    \/ addEvent
    \/ addEvents
    \/ setTimeRange
    \/ setCategoryFilters
    \/ setThreatLevelFilters
    \/ setSearchQuery
    \/ clearFilters



(***************************************************************************)
(* Deep research: the deliverables of a completed task                     *)
(***************************************************************************)
\* a deliverable without a url (the field is absent or empty)
NoUrl == ""

\* no link is held for a type of deliverable
NoLink == "(absent)"

DeliverableTypes == {"csv", "pptx", "docx"}

\* the deliverables the provider may report for a completed task
ProviderDeliverables ==
    [type : DeliverableTypes, status : {"completed", "pending"}, url : {NoUrl, "https://files/a"}]

\* statusData.deliverables: absent, or a list of at most two deliverables
DeliverableLists ==
    [present : {FALSE}, list : {<<>>}]
    \cup [present : {TRUE}, list : UNION {[1..n -> ProviderDeliverables] : n \in 0..2}]

\* the loop of deepResearchViaProxy over statusData.deliverables
RECURSIVE CollectDeliverables(_, _, _)
CollectDeliverables(list, i, deliverables) ==
    IF i > Len(list) THEN deliverables
    ELSE LET d == list[i]
             next == IF d.status = "completed" /\ d.url # NoUrl
                     THEN IF d.type = "csv" THEN [deliverables EXCEPT !.csv = d.url]
                          ELSE IF d.type = "pptx" THEN [deliverables EXCEPT !.pptx = d.url]
                          ELSE deliverables
                     ELSE deliverables
         IN CollectDeliverables(list, i + 1, next)

\* DeepResearchResult.deliverables as deepResearchViaProxy builds it
ResultDeliverables(statusData) ==
    IF statusData.present
    THEN CollectDeliverables(statusData.list, 1, [csv |-> NoLink, pptx |-> NoLink])
    ELSE [csv |-> NoLink, pptx |-> NoLink]

\* response.deliverables of the status route: every deliverable, field by field
RouteDeliverables(statusData) == statusData

\* getDeliverable(type) and the link rendered from it: shown when an entry is found
GetDeliverable(deliverables, type) ==
    LET found == {i \in 1..Len(deliverables.list) :
                    /\ deliverables.list[i].type = type
                    /\ deliverables.list[i].status = "completed"}
    IN IF deliverables.present /\ found # {}
       THEN [shown |-> TRUE, href |-> deliverables.list[Min(found)].url]
       ELSE [shown |-> FALSE, href |-> NoUrl]

NothingShown == [csv |-> [shown |-> FALSE, href |-> NoUrl], pptx |-> [shown |-> FALSE, href |-> NoUrl]]

DelivIdle ==
    /\ dl_pc = "idle"
    /\ dl_input = [present |-> FALSE, list |-> <<>>]
    /\ dl_server = [csv |-> NoLink, pptx |-> NoLink]
    /\ dl_data = [present |-> FALSE, list |-> <<>>]
    /\ dl_offered = NothingShown

\* the provider has reported the task completed
DelivInit ==
    /\ dl_pc = "completed"
    /\ dl_input \in DeliverableLists
    /\ dl_server = [csv |-> NoLink, pptx |-> NoLink]
    /\ dl_data = [present |-> FALSE, list |-> <<>>]
    /\ dl_offered = NothingShown

\* deepResearchViaProxy reads the completed status and returns its result
ServerResult ==
    /\ dl_pc = "completed"
    /\ dl_pc' = "server"
    /\ dl_server' = ResultDeliverables(dl_input)
    /\ UNCHANGED <<dl_input, dl_data, dl_offered>>
    /\ DelivFrame

\* GET /api/deepresearch/[taskId] answers the completed status
RouteRelays ==
    /\ dl_pc = "completed"
    /\ dl_pc' = "relayed"
    /\ dl_data' = RouteDeliverables(dl_input)
    /\ UNCHANGED <<dl_input, dl_server, dl_offered>>
    /\ DelivFrame

\* pollStatus stores data.deliverables and EntitySearch renders the links
ClientRenders ==
    /\ dl_pc = "relayed"
    /\ dl_pc' = "rendered"
    /\ dl_offered' = [csv |-> GetDeliverable(dl_data, "csv"), pptx |-> GetDeliverable(dl_data, "pptx")]
    /\ UNCHANGED <<dl_input, dl_server, dl_data>>
    /\ DelivFrame

DelivNext ==
    \/ ServerResult
    \/ RouteRelays
    \/ ClientRenders

(***************************************************************************)
(* Claims about the deliverables                                           *)
(***************************************************************************)
\* the provider reports a deliverable of the type that is completed and has this url
ReadyWith(type, url) ==
    /\ url # NoUrl
    /\ \E i \in 1..Len(dl_input.list) :
        /\ dl_input.list[i].type = type
        /\ dl_input.list[i].status = "completed"
        /\ dl_input.list[i].url = url

\* the server-side half of C21: the result holds a link only for a ready deliverable
C21_HoldsForServerPath ==
    dl_pc = "server" =>
        \A type \in {"csv", "pptx"} :
            dl_server[type] # NoLink => ReadyWith(type, dl_server[type])

\* C21: a deliverable is offered as a download only if its own status is
\* completed and it has a url, on the server-side result path and on the
\* status route plus client path
C21_OnlyReadyDeliverablesOffered ==
    /\ C21_HoldsForServerPath
    /\ dl_pc = "rendered" =>
        \A type \in {"csv", "pptx"} :
            dl_offered[type].shown => ReadyWith(type, dl_offered[type].href)


(***************************************************************************)
(* Geocoding and event classification                                      *)
(***************************************************************************)
\* words of the longest text the model follows
MaxWords == 3

\* the largest maxLocations the model follows (the parameter's default is 3)
MaxLocations == 2

\* the gazetteer, in the order of its keys (the entries the model follows)
KNOWN_LOCATIONS ==
    << [key |-> <<"J", "a", "p", "a", "n">>, lat |-> "36.2048", lng |-> "138.2529", country |-> "Japan"],
       [key |-> <<"T", "o", "k", "y", "o">>, lat |-> "35.6762", lng |-> "139.6503", country |-> "Japan"],
       [key |-> <<"U", "K">>, lat |-> "55.3781", lng |-> "-3.436", country |-> "United Kingdom"] >>

\* names every plain object inherits a truthy property for
ObjectPrototypeNames == {<<"c", "o", "n", "s", "t", "r", "u", "c", "t", "o", "r">>}

\* the first entries of LOCATION_BLACKLIST
LOCATION_BLACKLIST == {<<"N", "a", "t", "i", "o", "n", "a", "l">>, <<"I", "n", "t", "e", "r", "n", "a", "t", "i", "o", "n", "a", "l">>, <<"G", "l", "o", "b", "a", "l">>}

\* the prepositions of the second pattern of LOCATION_PATTERNS
Prepositions == {<<"i", "n">>, <<"a", "t">>, <<"n", "e", "a", "r">>, <<"f", "r", "o", "m">>, <<"a", "c", "r", "o", "s", "s">>, <<"t", "h", "r", "o", "u", "g", "h", "o", "u", "t">>}

\* the words texts are made of; no other pattern of LOCATION_PATTERNS matches them
Vocabulary == {<<"i", "n">>, <<"A", "t", "l", "a", "n", "t", "i", "s">>, <<"t", "o", "k", "y", "o">>}

Texts == UNION {[1..n -> Vocabulary] : n \in 0..MaxWords}

\* no name: null, or the empty string
NoName == <<>>

NullLocation == [kind |-> "null", latitude |-> "", longitude |-> "", placeName |-> NoName, country |-> ""]

GeoLocation(latitude, longitude, placeName, country) ==
    [kind |-> "location", latitude |-> latitude, longitude |-> longitude,
     placeName |-> placeName, country |-> country]

\* what the remote geocoder does with a name: the fetch rejects, the answer is
\* not 2xx, no feature is found, or a feature is found whose text is the
\* queried name or another name
RemoteOutcomes == {"network", "non2xx", "empty", "same", "tokyo"}

\* the remote geocoder: its outcome for names that start with Atlantis and for
\* all other names
RemoteGeocoders == [{"Atlantis", "other"} -> RemoteOutcomes]

RemoteOutcome(remote, placeName) ==
    IF StartsWith(placeName, <<"A", "t", "l", "a", "n", "t", "i", "s">>) THEN remote["Atlantis"] ELSE remote["other"]

\* the try block of geocodeLocation: the fetch and the tests of its answer
FetchGeocode(remote, placeName) ==
    LET outcome == RemoteOutcome(remote, placeName)
    IN CASE outcome = "network" -> [threw |-> TRUE, value |-> NullLocation]
         [] outcome = "non2xx" -> [threw |-> TRUE, value |-> NullLocation]
         [] outcome = "empty" -> [threw |-> FALSE, value |-> NullLocation]
         [] outcome = "same" ->
                [threw |-> FALSE, value |-> GeoLocation("lat", "lng", placeName, "")]
         [] OTHER ->
                [threw |-> FALSE, value |-> GeoLocation("lat", "lng", <<"T", "o", "k", "y", "o">>, "Japan")]

\* Object.keys(KNOWN_LOCATIONS).find(key => key.toLowerCase() === placeName.toLowerCase())
FindKnownKey(placeName) ==
    LET hits == {i \in 1..Len(KNOWN_LOCATIONS) :
                    ToLowerCase(KNOWN_LOCATIONS[i].key) = ToLowerCase(placeName)}
    IN IF hits = {} THEN 0 ELSE Min(hits)

\* mutant: the gazetteer is looked up by the exact name only
GeocodeLocationExactOnly(placeName, token, remote) ==
    LET exact == {i \in 1..Len(KNOWN_LOCATIONS) : KNOWN_LOCATIONS[i].key = placeName}
    IN IF exact # {}
       THEN LET known == KNOWN_LOCATIONS[Min(exact)]
            IN [result |-> GeoLocation(known.lat, known.lng, placeName, known.country),
                fetches |-> 0]
       ELSE IF placeName \in ObjectPrototypeNames
       THEN [result |-> GeoLocation("undefined", "undefined", placeName, "undefined"),
             fetches |-> 0]
       ELSE IF ~ token
       THEN [result |-> NullLocation, fetches |-> 0]
       ELSE [result |-> FetchGeocode(remote, placeName).value, fetches |-> 1]

\* geocodeLocation: the location or null, and the fetches made
GeocodeLocation(placeName, token, remote) ==
    LET exact == {i \in 1..Len(KNOWN_LOCATIONS) : KNOWN_LOCATIONS[i].key = placeName}
        knownKey == FindKnownKey(placeName)
    IN IF exact # {}
       THEN LET known == KNOWN_LOCATIONS[Min(exact)]
            IN [result |-> GeoLocation(known.lat, known.lng, placeName, known.country),
                fetches |-> 0]
       ELSE IF placeName \in ObjectPrototypeNames
       THEN \* KNOWN_LOCATIONS[placeName] is the inherited property, which is truthy
            [result |-> GeoLocation("undefined", "undefined", placeName, "undefined"),
             fetches |-> 0]
       ELSE IF knownKey # 0
       THEN LET loc == KNOWN_LOCATIONS[knownKey]
            IN [result |-> GeoLocation(loc.lat, loc.lng, loc.key, loc.country), fetches |-> 0]
       ELSE IF ~ token
       THEN [result |-> NullLocation, fetches |-> 0]
       ELSE \* the catch block turns every exception of the try block into null
            [result |-> FetchGeocode(remote, placeName).value, fetches |-> 1]

\* [A-Z][a-zA-Z]+
IsCapitalized(word) ==
    /\ Len(word) >= 2
    /\ IsUpper(word[1])
    /\ \A k \in 2..Len(word) : IsLetter(word[k])

RECURSIVE JoinWords(_)
JoinWords(words) ==
    IF Len(words) = 0 THEN <<>>
    ELSE IF Len(words) = 1 THEN words[1]
    ELSE words[1] \o <<" ">> \o JoinWords(Tail(words))

\* Set.prototype.add on a set kept in insertion order
AddToSet(list, x) == IF \E i \in 1..Len(list) : list[i] = x THEN list ELSE Append(list, x)

\* the tests of a captured candidate
CandidateOk(candidate) ==
    /\ candidate # NoName
    /\ candidate \notin LOCATION_BLACKLIST
    /\ Len(candidate) >= 3
    /\ ~ (Len(candidate) <= 4 /\ \A i \in 1..Len(candidate) : LowerChar(candidate[i]) # candidate[i] \/ ~ IsLetter(candidate[i]))

\* the known locations the text mentions, in the order of the gazetteer
RECURSIVE KnownMentions(_, _, _)
KnownMentions(words, i, locations) ==
    IF i > Len(KNOWN_LOCATIONS) THEN locations
    ELSE KnownMentions(words, i + 1,
            IF \E w \in 1..Len(words) : ToLowerCase(words[w]) = ToLowerCase(KNOWN_LOCATIONS[i].key)
            THEN AddToSet(locations, KNOWN_LOCATIONS[i].key)
            ELSE locations)

\* the matches of the preposition pattern: up to three capitalized words after
\* a preposition, the search going on behind each match
RECURSIVE PrepositionMatches(_, _, _)
PrepositionMatches(words, i, locations) ==
    IF i >= Len(words) THEN locations
    ELSE IF words[i] \in Prepositions /\ IsCapitalized(words[i + 1])
    THEN LET ends == {j \in (i + 1)..(i + 3) :
                        /\ j <= Len(words)
                        /\ \A k \in (i + 1)..j : IsCapitalized(words[k])}
             last == CHOOSE j \in ends : \A k \in ends : k <= j
             candidate == JoinWords(SubSeq(words, i + 1, last))
         IN PrepositionMatches(words, last + 1,
                IF CandidateOk(candidate) THEN AddToSet(locations, candidate) ELSE locations)
    ELSE PrepositionMatches(words, i + 1, locations)

\* mutant: the pattern matches come before the known locations
ExtractLocationsFromTextPatternsFirst(words) ==
    KnownMentions(words, 1, PrepositionMatches(words, 1, <<>>))

\* extractLocationsFromText: the known locations first, then the pattern matches
ExtractLocationsFromText(words) ==
    PrepositionMatches(words, 1, KnownMentions(words, 1, <<>>))

\* the loop of geocodeLocationsFromText that adds the regex candidates
RECURSIVE AddCandidates(_, _, _, _)
AddCandidates(candidates, i, locationNames, maxLocations) ==
    IF i > Len(candidates) THEN locationNames
    ELSE LET next == IF \E k \in 1..Len(locationNames) :
                            ToLowerCase(locationNames[k]) = ToLowerCase(candidates[i])
                     THEN locationNames
                     ELSE Append(locationNames, candidates[i])
         IN IF Len(next) >= maxLocations THEN next
            ELSE AddCandidates(candidates, i + 1, next, maxLocations)

\* locationNames of geocodeLocationsFromText
LocationNames(words, primaryLocation, maxLocations) ==
    AddCandidates(ExtractLocationsFromText(words), 1,
                  IF primaryLocation # NoName THEN <<primaryLocation>> ELSE <<>>,
                  maxLocations)

\* geocode the names one after the other and keep the locations found
RECURSIVE GeocodeAll(_, _, _, _, _)
GeocodeAll(names, i, token, remote, acc) ==
    IF i > Len(names) THEN acc
    ELSE LET g == GeocodeLocation(names[i], token, remote)
         IN GeocodeAll(names, i + 1, token, remote,
                [locations |-> IF g.result.kind = "location"
                               THEN Append(acc.locations, g.result) ELSE acc.locations,
                 fetches |-> acc.fetches + g.fetches])

\* geocodeLocationsFromText: primaryLocation is what extractLocationWithAI returned
GeocodeLocationsFromText(words, primaryLocation, maxLocations, token, remote) ==
    GeocodeAll(Slice(LocationNames(words, primaryLocation, maxLocations), maxLocations),
               1, token, remote, [locations |-> <<>>, fetches |-> 0])

\* the loop of classifyEvent over the candidates: stop at the first location
RECURSIVE FirstGeocoded(_, _, _, _, _)
FirstGeocoded(candidates, i, token, remote, fetches) ==
    IF i > Len(candidates) THEN [result |-> NullLocation, fetches |-> fetches]
    ELSE LET g == GeocodeLocation(candidates[i], token, remote)
         IN IF g.result.kind = "location"
            THEN [result |-> g.result, fetches |-> fetches + g.fetches]
            ELSE FirstGeocoded(candidates, i + 1, token, remote, fetches + g.fetches)

\* what classifyWithAI gets from the provider
AiAnswers ==
    [kind : {"off", "throws", "unparsed"}, primaryLocation : {NoName}, country : {NoName}]
    \cup [kind : {"parsed"}, primaryLocation : {NoName, <<"A", "t", "l", "a", "n", "t", "i", "s">>, <<"t", "o", "k", "y", "o">>},
          country : {NoName, <<"J", "a", "p", "a", "n">>}]

\* classifyWithAI: the parsed result, or null when the client is not
\* configured, the call throws (caught) or nothing was parsed
ClassifyWithAI(ai) == IF ai.kind = "parsed" THEN ai ELSE [ai EXCEPT !.kind = "null"]

\* mutant: an exception of the provider is not caught
ClassifyEventRethrows(words, ai, token, remote) ==
    IF ai.kind = "throws"
    THEN [threw |-> TRUE, classified |-> "none", location |-> NullLocation, fetches |-> 0]
    ELSE LET g == FirstGeocoded(ExtractLocationsFromText(words), 1, token, remote, 0)
         IN [threw |-> FALSE, classified |-> "keywords", location |-> g.result,
             fetches |-> g.fetches]

\* classifyEvent: category and threat level from the provider or from the
\* keywords, the location, and the fetches made
ClassifyEvent(words, ai, token, remote) ==
    LET aiResult == ClassifyWithAI(ai)
    IN IF aiResult.kind = "parsed"
       THEN LET first == IF aiResult.primaryLocation # NoName
                         THEN GeocodeLocation(aiResult.primaryLocation, token, remote)
                         ELSE [result |-> NullLocation, fetches |-> 0]
                second == IF /\ aiResult.primaryLocation # NoName
                             /\ first.result.kind = "null"
                             /\ aiResult.country # NoName
                          THEN GeocodeLocation(aiResult.country, token, remote)
                          ELSE [result |-> first.result, fetches |-> 0]
            IN [threw |-> FALSE, classified |-> "ai", location |-> second.result,
                fetches |-> first.fetches + second.fetches]
       ELSE LET g == FirstGeocoded(ExtractLocationsFromText(words), 1, token, remote, 0)
            IN [threw |-> FALSE, classified |-> "keywords", location |-> g.result,
                fetches |-> g.fetches]

\* the names geocodeLocation is called with
GeocodeNames ==
    {<<"T", "o", "k", "y", "o">>, <<"t", "o", "k", "y", "o">>, <<"J", "A", "P", "A", "N">>, <<"A", "t", "l", "a", "n", "t", "i", "s">>, <<"G", "o", "t", "h", "a", "m">>, <<"c", "o", "n", "s", "t", "r", "u", "c", "t", "o", "r">>, <<"U", "K">>, <<"u", "k">>, <<"R", "o", "u", "t", "e", "s">>}

NoCall == [fn |-> "none", name |-> NoName, words |-> <<>>, primaryLocation |-> NoName,
           maxLocations |-> 0, ai |-> [kind |-> "off", primaryLocation |-> NoName, country |-> NoName],
           token |-> FALSE, remote |-> [k \in {"Atlantis", "other"} |-> "empty"]]

\* the remote geocoders that differ in what they do with the names of a text
TextGeocoders == {remote \in RemoteGeocoders : remote["other"] = "empty"}

\* the calls the model follows, with the environment each runs in
GeoCalls ==
    {[NoCall EXCEPT !.fn = "geocodeLocation", !.name = name, !.token = token, !.remote = remote] :
        name \in GeocodeNames, token \in BOOLEAN, remote \in RemoteGeocoders}
    \cup {[NoCall EXCEPT !.fn = "geocodeLocationsFromText", !.words = words,
                         !.primaryLocation = primary, !.maxLocations = maxLocations,
                         !.token = token, !.remote = remote] :
        words \in Texts, primary \in {NoName, <<"A", "t", "l", "a", "n", "t", "i", "s">>, <<"t", "o", "k", "y", "o">>},
        maxLocations \in 1..MaxLocations, token \in BOOLEAN, remote \in TextGeocoders}
    \cup {[NoCall EXCEPT !.fn = "classifyEvent", !.words = words, !.ai = ai,
                         !.token = token, !.remote = remote] :
        words \in Texts, ai \in AiAnswers, token \in BOOLEAN, remote \in TextGeocoders}

NoReturn == [threw |-> FALSE, classified |-> "none", locations |-> <<>>, fetches |-> 0]

GeoIdle ==
    /\ g_pc = "idle"
    /\ g_call = NoCall
    /\ g_ret = NoReturn

GeoInit ==
    /\ g_pc = "called"
    /\ g_call \in GeoCalls
    /\ g_ret = NoReturn

\* geocodeLocation(placeName) runs and returns
GeocodeLocationReturns ==
    /\ g_pc = "called"
    /\ g_call.fn = "geocodeLocation"
    /\ g_pc' = "returned"
    /\ LET g == GeocodeLocation(g_call.name, g_call.token, g_call.remote)
       IN g_ret' = [threw |-> FALSE, classified |-> "none",
                    locations |-> IF g.result.kind = "location" THEN <<g.result>> ELSE <<>>,
                    fetches |-> g.fetches]
    /\ UNCHANGED g_call
    /\ GeoFrame

\* geocodeLocationsFromText(text, title, maxLocations) runs and returns
GeocodeLocationsFromTextReturns ==
    /\ g_pc = "called"
    /\ g_call.fn = "geocodeLocationsFromText"
    /\ g_pc' = "returned"
    /\ LET g == GeocodeLocationsFromText(g_call.words, g_call.primaryLocation,
                    g_call.maxLocations, g_call.token, g_call.remote)
       IN g_ret' = [threw |-> FALSE, classified |-> "none", locations |-> g.locations,
                    fetches |-> g.fetches]
    /\ UNCHANGED g_call
    /\ GeoFrame

\* classifyEvent(title, content) runs and returns
ClassifyEventReturns ==
    /\ g_pc = "called"
    /\ g_call.fn = "classifyEvent"
    /\ g_pc' = "returned"
    /\ LET c == ClassifyEvent(g_call.words, g_call.ai, g_call.token, g_call.remote)
       IN g_ret' = [threw |-> c.threw, classified |-> c.classified,
                    locations |-> IF c.location.kind = "location" THEN <<c.location>> ELSE <<>>,
                    fetches |-> c.fetches]
    /\ UNCHANGED g_call
    /\ GeoFrame

GeoNext ==
    \/ GeocodeLocationReturns
    \/ GeocodeLocationsFromTextReturns
    \/ ClassifyEventReturns

(***************************************************************************)
(* Claims about geocoding and classification                               *)
(***************************************************************************)
EqualIgnoringCase(a, b) ==
    /\ Len(a) = Len(b)
    /\ \A i \in 1..Len(a) : LowerChar(a[i]) = LowerChar(b[i])

\* the gazetteer entries whose key is the name, letter case apart
EntriesNamed(name) ==
    {i \in 1..Len(KNOWN_LOCATIONS) : EqualIgnoringCase(KNOWN_LOCATIONS[i].key, name)}

\* the location has the coordinates and the country of a gazetteer entry
FromGazetteer(location, entries) ==
    \E i \in entries :
        /\ location.latitude = KNOWN_LOCATIONS[i].lat
        /\ location.longitude = KNOWN_LOCATIONS[i].lng
        /\ location.country = KNOWN_LOCATIONS[i].country

Returned(fn) == g_pc = "returned" /\ g_call.fn = fn

\* C24: geocodeLocation of a name that is a gazetteer key, exactly or letter
\* case apart, returns that entry's coordinates and country and makes no
\* network call, whatever the token and the remote geocoder are
C24_GazetteerWithoutNetwork ==
    (Returned("geocodeLocation") /\ EntriesNamed(g_call.name) # {})
        => /\ g_ret.fetches = 0
           /\ Len(g_ret.locations) = 1
           /\ FromGazetteer(g_ret.locations[1], EntriesNamed(g_call.name))

\* a name that differs from its key in letter case, with a remote geocoder
\* that would have answered
C24_Witness ==
    /\ Returned("geocodeLocation")
    /\ g_call.name = <<"J", "A", "P", "A", "N">>
    /\ g_call.token
    /\ g_call.remote["other"] = "same"
    /\ g_ret.locations # <<>>

\* the text mentions the gazetteer name as a word, letter case apart
Mentions(words, i) ==
    \E w \in 1..Len(words) : EqualIgnoringCase(words[w], KNOWN_LOCATIONS[i].key)

\* C25: with the AI provider disabled, classifyEvent on a text that mentions
\* a gazetteer name returns a location of the gazetteer and makes no
\* geocoding network call, whatever other candidates the text holds
C25_GazetteerMentionWins ==
    (/\ Returned("classifyEvent")
     /\ g_call.ai.kind = "off"
     /\ \E i \in 1..Len(KNOWN_LOCATIONS) : Mentions(g_call.words, i))
        => /\ g_ret.fetches = 0
           /\ Len(g_ret.locations) = 1
           /\ FromGazetteer(g_ret.locations[1],
                            {i \in 1..Len(KNOWN_LOCATIONS) : Mentions(g_call.words, i)})

\* the text names another candidate before the gazetteer name, and the remote
\* geocoder would have resolved that candidate
C25_Witness ==
    /\ Returned("classifyEvent")
    /\ g_call.ai.kind = "off"
    /\ g_call.words = <<<<"i", "n">>, <<"A", "t", "l", "a", "n", "t", "i", "s">>, <<"t", "o", "k", "y", "o">>>>
    /\ g_call.token
    /\ g_call.remote["Atlantis"] = "same"
    /\ g_ret.locations # <<>>

\* the bound half of C26: no more than maxLocations entries are returned
C26_AtMostMaxLocations ==
    Returned("geocodeLocationsFromText") => Len(g_ret.locations) <= g_call.maxLocations

\* C26: geocodeLocationsFromText returns at most maxLocations entries and no
\* two of them have placeNames that are equal letter case apart
C26_BoundedAndDistinct ==
    Returned("geocodeLocationsFromText")
        => /\ Len(g_ret.locations) <= g_call.maxLocations
           /\ \A i, j \in 1..Len(g_ret.locations) :
                i # j => ~ EqualIgnoringCase(g_ret.locations[i].placeName,
                                             g_ret.locations[j].placeName)

\* the candidate names of a call in order: the AI's location, then the
\* extracted names not yet listed
AllCandidates ==
    LocationNames(g_call.words, g_call.primaryLocation, MaxWords + 2)

Geocodable(name) == GeocodeLocation(name, g_call.token, g_call.remote).result.kind = "location"

\* C27: geocodeLocationsFromText goes on past candidates that fail to geocode:
\* if k <= maxLocations candidates are geocodable, at least k locations are
\* returned
C27_ContinuesPastFailures ==
    Returned("geocodeLocationsFromText")
        => LET geocodable == Cardinality({i \in 1..Len(AllCandidates) : Geocodable(AllCandidates[i])})
           IN Len(g_ret.locations) >=
                (IF geocodable < g_call.maxLocations THEN geocodable ELSE g_call.maxLocations)

\* the remote lookup of the call is not configured or fails
RemoteUnavailable ==
    \/ ~ g_call.token
    \/ RemoteOutcome(g_call.remote, g_call.name) \in {"network", "non2xx", "empty"}

\* C28 holds of every name that is not an inherited property name
C28_HoldsForOwnNames ==
    (/\ Returned("geocodeLocation")
     /\ EntriesNamed(g_call.name) = {}
     /\ g_call.name \notin ObjectPrototypeNames
     /\ RemoteUnavailable)
        => (~ g_ret.threw /\ g_ret.locations = <<>>)

\* C28: geocodeLocation never throws, and for a name that is not in the
\* gazetteer it returns null when the remote lookup is not configured, fails
\* at the network level, answers non-2xx or finds no feature
C28_NullWhenUnresolvable ==
    (Returned("geocodeLocation") /\ EntriesNamed(g_call.name) = {} /\ RemoteUnavailable)
        => (~ g_ret.threw /\ g_ret.locations = <<>>)

\* the first extracted candidate that geocodes, if any
FirstGeocodable(candidates) ==
    LET ok == {i \in 1..Len(candidates) : Geocodable(candidates[i])}
    IN IF ok = {} THEN <<>>
       ELSE <<GeocodeLocation(candidates[Min(ok)], g_call.token, g_call.remote).result>>

\* C29: when the AI provider is not configured, throws or returns nothing
\* parsed, classifyEvent propagates no error and returns the keyword
\* classification with the first extracted candidate that geocodes as location
C29_AiFailureFallsBack ==
    (Returned("classifyEvent") /\ g_call.ai.kind \in {"off", "throws", "unparsed"})
        => /\ ~ g_ret.threw
           /\ g_ret.classified = "keywords"
           /\ g_ret.locations = FirstGeocodable(ExtractLocationsFromText(g_call.words))

\* the provider throws and the remote geocoder resolves the candidate
C29_Witness ==
    /\ Returned("classifyEvent")
    /\ g_call.ai.kind = "throws"
    /\ g_call.words = <<<<"i", "n">>, <<"A", "t", "l", "a", "n", "t", "i", "s">>>>
    /\ g_ret.fetches = 1
    /\ g_ret.locations # <<>>
    /\ g_ret.classified = "keywords"


\* the names the claim has isValidLocation reject: shorter than 2 characters,
\* one of five words whatever the case, or a short token of lowercase letters
RejectedAsClaimed(name) ==
    \/ Len(name) < 2
    \/ ToLowerCase(name) \in {<<"u", "n", "k", "n", "o", "w", "n">>, <<"g", "l", "o", "b", "a", "l">>, <<"w", "o", "r", "l", "d", "w", "i", "d", "e">>, <<"n", "/", "a">>, <<"r", "o", "u", "t", "e", "s">>}
    \/ /\ Len(name) < 3
       /\ \A i \in 1..Len(name) : IsLetter(name[i]) /\ ~ IsUpper(name[i])

\* the location geocodeLocation returned
ReturnedLocation == g_ret.locations[1]

\* C32 holds for names of three characters and more
C32_HoldsForLongerNames ==
    (Returned("geocodeLocation") /\ g_ret.locations # <<>> /\ Len(ReturnedLocation.placeName) >= 3)
        => (isValidLocation(ReturnedLocation) <=> ~ RejectedAsClaimed(ReturnedLocation.placeName))

\* C32: isValidLocation rejects a location exactly if its name is shorter than
\* 2 characters, one of unknown, global, worldwide, n/a and routes ignoring
\* case, or a short lowercase token; it accepts every gazetteer key
\* geocodeLocation returns as placeName
C32_RejectsOnlyGarbage ==
    (Returned("geocodeLocation") /\ g_ret.locations # <<>>)
        => /\ isValidLocation(ReturnedLocation) <=> ~ RejectedAsClaimed(ReturnedLocation.placeName)
           /\ EntriesNamed(g_call.name) # {} => isValidLocation(ReturnedLocation)

(***************************************************************************)
(* Deep research: creating a task (POST /api/deepresearch and handleSearch)*)
(***************************************************************************)
\* no task id: the field is undefined
NoTaskId == "(undefined)"

\* what the provider does with the create call: the call fails before an
\* answer, the answer is not 2xx, the answer carries a task id, the answer is
\* 2xx without a task id, or the answer reports a failure with an error text
CreateOutcomes == {"throws", "http401", "http403", "http500", "created", "noId", "refused"}

\* createTaskViaProxy: { taskId } or { error }
CreateTaskViaProxy(outcome) ==
    CASE outcome = "throws" -> [taskId |-> NoTaskId, error |-> "fetch failed"]
      [] outcome \in {"http401", "http403"} ->
            [taskId |-> NoTaskId, error |-> "Session expired. Please sign in again."]
      [] outcome = "http500" -> [taskId |-> NoTaskId, error |-> "API call failed: 500"]
      [] outcome = "created" -> [taskId |-> "task-1", error |-> NoError]
      [] OTHER ->
            \* a 2xx body without deepresearch_id: taskId is undefined, and so is error
            [taskId |-> NoTaskId, error |-> NoError]

\* valyu.deepresearch.create in self-hosted mode: the task object, or an exception
SdkCreate(outcome) ==
    CASE outcome = "throws" -> [threw |-> TRUE, success |-> FALSE, id |-> NoTaskId, error |-> NoError]
      [] outcome = "created" -> [threw |-> FALSE, success |-> TRUE, id |-> "task-1", error |-> NoError]
      [] outcome = "noId" -> [threw |-> FALSE, success |-> TRUE, id |-> NoTaskId, error |-> NoError]
      [] outcome = "refused" -> [threw |-> FALSE, success |-> FALSE, id |-> NoTaskId, error |-> "quota exceeded"]
      [] OTHER -> [threw |-> FALSE, success |-> FALSE, id |-> NoTaskId, error |-> "API call failed"]

JsonResponse(http, taskId, status, error) ==
    [http |-> http, taskId |-> taskId, status |-> status, error |-> error]

NoResponseYet == JsonResponse(0, NoTaskId, "(undefined)", NoError)

\* POST /api/deepresearch: the response to a request
PostDeepResearch(req) ==
    IF ~ req.topic
    THEN JsonResponse(400, NoTaskId, "(undefined)", "Topic is required")
    ELSE IF ~ req.selfHosted /\ ~ req.accessToken
    THEN JsonResponse(401, NoTaskId, "(undefined)", "Authentication required")
    ELSE IF ~ req.selfHosted
    THEN LET result == CreateTaskViaProxy(req.outcome)
         IN IF result.error # NoError
            THEN JsonResponse(500, NoTaskId, "(undefined)", result.error)
            ELSE JsonResponse(200, result.taskId, "queued", NoError)
    ELSE IF ~ req.hasKey
    THEN \* getValyuClient throws: the catch block of POST
         JsonResponse(500, NoTaskId, "(undefined)", "Failed to create research task")
    ELSE LET task == SdkCreate(req.outcome)
         IN IF task.threw
            THEN JsonResponse(500, NoTaskId, "(undefined)", "Failed to create research task")
            ELSE IF ~ task.success \/ task.id = NoTaskId
            THEN JsonResponse(500, NoTaskId, "(undefined)",
                    IF task.error # NoError THEN task.error ELSE "Failed to create research task")
            ELSE JsonResponse(200, task.id, "queued", NoError)

\* the requests the model follows, with the mode and the provider's behaviour
CreateRequests ==
    [topic : BOOLEAN, accessToken : BOOLEAN, selfHosted : BOOLEAN, hasKey : BOOLEAN,
     outcome : CreateOutcomes]

CreateIdle ==
    /\ k_pc = "idle"
    /\ k_req = [topic |-> FALSE, accessToken |-> FALSE, selfHosted |-> FALSE,
                hasKey |-> FALSE, outcome |-> "throws"]
    /\ k_resp = NoResponseYet
    /\ k_taskId = NoTaskId
    /\ k_error = NoError

\* handleSearch has sent the request
CreateInit ==
    /\ k_pc = "sent"
    /\ k_req \in CreateRequests
    /\ k_resp = NoResponseYet
    /\ k_taskId = NoTaskId
    /\ k_error = NoError

\* the route answers
CreateRouteAnswers ==
    /\ k_pc = "sent"
    /\ k_pc' = "answered"
    /\ k_resp' = PostDeepResearch(k_req)
    /\ UNCHANGED <<k_req, k_taskId, k_error>>
    /\ CreateFrame

\* handleSearch, .then: the error is shown, or the task id starts the polling
CreateClientThen ==
    /\ k_pc = "answered"
    /\ k_pc' = "handled"
    /\ IF k_resp.error # NoError
       THEN k_error' = k_resp.error /\ UNCHANGED k_taskId
       ELSE IF k_resp.taskId # NoTaskId
       THEN k_taskId' = k_resp.taskId /\ UNCHANGED k_error
       ELSE UNCHANGED <<k_taskId, k_error>>
    /\ UNCHANGED <<k_req, k_resp>>
    /\ CreateFrame

\* handleSearch, .catch: the fetch or res.json() rejects
CreateClientCatch ==
    /\ k_pc \in {"sent", "answered"}
    /\ k_pc' = "handled"
    /\ k_error' = "Failed to start research"
    /\ UNCHANGED <<k_req, k_resp, k_taskId>>
    /\ CreateFrame

CreateNext ==
    \/ CreateRouteAnswers
    \/ CreateClientThen
    \/ CreateClientCatch

(***************************************************************************)
(* Claims about creating a task                                            *)
(***************************************************************************)
\* C30 holds in self-hosted mode
C30_HoldsForSelfHosted ==
    (k_pc # "sent" /\ k_req.selfHosted /\ k_resp # NoResponseYet)
        => /\ k_resp.http = 200 => (k_resp.taskId # NoTaskId /\ k_resp.status = "queued")
           /\ k_resp.taskId = NoTaskId => k_resp.error # NoError

\* C30: every success response of POST /deepresearch carries a task id and
\* status queued, a create call without task id gives an error response, and
\* the client never ends up with neither a task id nor an error
C30_TaskIdOrError ==
    /\ k_resp.http = 200 => (k_resp.taskId # NoTaskId /\ k_resp.status = "queued")
    /\ (k_resp # NoResponseYet /\ k_resp.taskId = NoTaskId) => k_resp.error # NoError
    /\ k_pc = "handled" => (k_taskId # NoTaskId \/ k_error # NoError)


(***************************************************************************)
(* Country conflicts in the browser: handleMapClick, the conflicts modal   *)
(* and the conflicts route as the modal's EventSource sees it              *)
(***************************************************************************)
\* EventSource objects of one session the model follows
MaxStreams == 2

\* "2 free lookups": the limit hasReachedLimit tests (lib/usage-limits is
\* described by the README's feature table)
FreeLookups == 2

\* selectedCountry is null
NoSelection == "(null)"

CountryNames == {"Sudan", "Yemen"}

\* the data the effect starts a country with
EmptyConflictData(country) ==
    [country |-> country, current |-> <<>>, currentSources |-> 0,
     past |-> <<>>, pastSources |-> 0]

\* data is null
NoData == EmptyConflictData(NoSelection)

\* what the route streams for one request, by chunk type: both sections and
\* done, or an error chunk after the first content
StreamScripts ==
    { <<"current_content", "current_sources", "past_content", "past_sources", "done">>,
      <<"current_content", "error">> }

\* new EventSource(url): accessToken is in the url only if the store has one
NewEventSource(country, token) ==
    [country |-> country, hasToken |-> token # NoToken, state |-> "connecting",
     answer |-> "pending", todo |-> <<>>]

\* eventSource.close() on the EventSource the effect created last
CloseLast(es) ==
    IF es = <<>> THEN es ELSE [es EXCEPT ![Len(es)].state = "closed"]

\* mutant: the effect neither closes the EventSource of the ref nor returns a
\* cleanup
CleanupLeavesOpen(es) == es

\* the cleanup of the effect and the close of eventSourceRef.current
Cleanup(es) == CloseLast(es)

\* checkLimit
CheckLimit ==
    IF m_mode # "valyu" THEN FALSE
    ELSE IF ~ m_initialized THEN FALSE
    ELSE IF m_token # NoToken THEN FALSE
    ELSE m_clicks >= FreeLookups

\* the effect of the modal for a new country or token
EffectRuns(country, token) ==
    IF country = NoSelection
    THEN /\ m_es' = Cleanup(m_es)
         /\ m_data' = NoData
         /\ m_error' = NoError
         /\ m_mapLoading' = FALSE
         /\ UNCHANGED <<m_isLoading, m_streaming>>
    ELSE /\ m_es' = Append(Cleanup(m_es), NewEventSource(country, token))
         /\ m_isLoading' = TRUE
         /\ m_streaming' = "current"
         /\ m_mapLoading' = TRUE
         /\ m_error' = NoError
         /\ m_data' = EmptyConflictData(country)

\* setData of onmessage: the content of a chunk is what the provider wrote
\* for the request of EventSource s
ApplyChunk(data, type, s) ==
    IF data = NoData THEN NoData
    ELSE CASE type = "current_content" -> [data EXCEPT !.current = Append(@, s)]
           [] type = "current_sources" -> [data EXCEPT !.currentSources = s]
           [] type = "past_content" -> [data EXCEPT !.past = Append(@, s)]
           [] type = "past_sources" -> [data EXCEPT !.pastSources = s]
           [] OTHER -> data

ModalIdle ==
    /\ m_mode = "self-hosted"
    /\ m_initialized = FALSE
    /\ m_token = NoToken
    /\ m_clicks = 0
    /\ m_showSignIn = FALSE
    /\ m_country = NoSelection
    /\ m_es = <<>>
    /\ m_data = NoData
    /\ m_error = NoError
    /\ m_isLoading = FALSE
    /\ m_streaming = "none"
    /\ m_mapLoading = FALSE

\* the page is loaded: no country selected, the session restored or absent
ModalInit ==
    /\ m_mode \in {"valyu", "self-hosted"}
    /\ m_initialized = FALSE
    /\ m_token \in {NoToken, 1}
    /\ m_clicks = 0
    /\ m_showSignIn = FALSE
    /\ m_country = NoSelection
    /\ m_es = <<>>
    /\ m_data = NoData
    /\ m_error = NoError
    /\ m_isLoading = FALSE
    /\ m_streaming = "none"
    /\ m_mapLoading = FALSE

\* auth store: initialize, which signs in if loadInitialTokens finds a stored
\* session; accessToken is a dependency of the modal's effect
AuthInitialize ==
    /\ ~ m_initialized
    /\ m_initialized' = TRUE
    /\ \E stored \in BOOLEAN :
          /\ m_token' = IF stored THEN 1 ELSE m_token
          /\ IF m_country = NoSelection \/ m_token' = m_token
             THEN UNCHANGED <<m_es, m_data, m_error, m_isLoading, m_streaming, m_mapLoading>>
             ELSE Len(m_es) < MaxStreams /\ EffectRuns(m_country, m_token')
    /\ UNCHANGED <<m_mode, m_clicks, m_showSignIn, m_country>>
    /\ ModalFrame

\* auth store: signIn
ModalSignIn ==
    /\ m_initialized
    /\ m_token = NoToken
    /\ m_token' = 1
    /\ IF m_country = NoSelection
       THEN UNCHANGED <<m_es, m_data, m_error, m_isLoading, m_streaming, m_mapLoading>>
       ELSE Len(m_es) < MaxStreams /\ EffectRuns(m_country, 1)
    /\ UNCHANGED <<m_mode, m_initialized, m_clicks, m_showSignIn, m_country>>
    /\ ModalFrame

\* handleMapClick on a country, after the reverse geocoding answered
MapClick(country) ==
    IF CheckLimit
    THEN /\ m_showSignIn' = TRUE
         /\ UNCHANGED <<m_mode, m_initialized, m_token, m_clicks, m_country, m_es, m_data,
                        m_error, m_isLoading, m_streaming, m_mapLoading>>
         /\ ModalFrame
    ELSE /\ m_clicks' = IF m_mode = "valyu" /\ m_initialized /\ m_token = NoToken
                        THEN m_clicks + 1 ELSE m_clicks
         /\ m_country' = country
         /\ IF country = m_country
            THEN \* the same country: the effect does not run again
                 /\ m_mapLoading' = TRUE
                 /\ UNCHANGED <<m_es, m_data, m_error, m_isLoading, m_streaming>>
            ELSE Len(m_es) < MaxStreams /\ EffectRuns(country, m_token)
         /\ UNCHANGED <<m_mode, m_initialized, m_token, m_showSignIn>>
         /\ ModalFrame

\* handleCountryModalClose
ModalClose ==
    /\ m_country # NoSelection
    /\ m_country' = NoSelection
    /\ EffectRuns(NoSelection, m_token)
    /\ UNCHANGED <<m_mode, m_initialized, m_token, m_clicks, m_showSignIn>>
    /\ ModalFrame

\* GET /api/countries/conflicts?stream=true answers the request of
\* EventSource s: 401 in valyu mode without accessToken, else the stream
ConflictsRouteAnswers(s) ==
    /\ m_es[s].state = "connecting"
    /\ m_es[s].answer = "pending"
    /\ IF m_mode # "self-hosted" /\ ~ m_es[s].hasToken
       THEN m_es' = [m_es EXCEPT ![s].answer = "401"]
       ELSE \E script \in StreamScripts :
               m_es' = [m_es EXCEPT ![s].answer = "stream", ![s].state = "open",
                                    ![s].todo = script]
    /\ UNCHANGED <<m_mode, m_initialized, m_token, m_clicks, m_showSignIn, m_country,
                   m_data, m_error, m_isLoading, m_streaming, m_mapLoading>>
    /\ ModalFrame

\* eventSource.onmessage of EventSource s: the browser delivers no event of
\* a closed EventSource
OnMessage(s) ==
    /\ m_es[s].state = "open"
    /\ m_es[s].todo # <<>>
    /\ LET type == Head(m_es[s].todo)
           ends == type \in {"done", "error"}
       IN /\ m_es' = [m_es EXCEPT ![s].todo = Tail(@),
                                  ![s].state = IF ends THEN "closed" ELSE @]
          /\ m_data' = ApplyChunk(m_data, type, s)
          /\ m_error' = IF type = "error" THEN "An error occurred" ELSE m_error
          /\ m_isLoading' = IF ends THEN FALSE ELSE m_isLoading
          /\ m_mapLoading' = IF ends THEN FALSE ELSE m_mapLoading
          /\ m_streaming' = CASE type = "current_sources" -> "past"
                              [] ends -> "none"
                              [] OTHER -> m_streaming
    /\ UNCHANGED <<m_mode, m_initialized, m_token, m_clicks, m_showSignIn, m_country>>
    /\ ModalFrame

\* eventSource.onerror of EventSource s: the answer was not a stream, or the
\* connection failed
OnError(s) ==
    /\ m_es[s].state \in {"connecting", "open"}
    /\ m_es' = [m_es EXCEPT ![s].state = "closed"]
    /\ m_error' = "Connection lost. Please try again."
    /\ m_isLoading' = FALSE
    /\ m_streaming' = "none"
    /\ m_mapLoading' = FALSE
    /\ UNCHANGED <<m_mode, m_initialized, m_token, m_clicks, m_showSignIn, m_country, m_data>>
    /\ ModalFrame

ModalNext ==
    \/ AuthInitialize
    \/ ModalSignIn
    \/ \E country \in CountryNames : MapClick(country)
    \/ ModalClose
    \/ \E s \in 1..Len(m_es) : ConflictsRouteAnswers(s)
    \/ \E s \in 1..Len(m_es) : OnMessage(s)
    \/ \E s \in 1..Len(m_es) : OnError(s)

(***************************************************************************)
(* Claims about the conflicts modal                                        *)
(***************************************************************************)
\* the part of C31 that holds: counted lookups never exceed the free ones and
\* the prompt is shown only once they are used up
C31_PromptOnlyAfterFreeLookups ==
    /\ m_clicks <= FreeLookups
    /\ m_showSignIn => (m_mode = "valyu" /\ m_clicks = FreeLookups)

\* C31: in valyu mode the lookups of a user without session are served (the
\* route does not refuse them), at most two are counted, and the sign-in
\* prompt appears only after the two
C31_TwoFreeLookupsServed ==
    m_mode = "valyu" =>
        /\ \A s \in 1..Len(m_es) : ~ m_es[s].hasToken => m_es[s].answer # "401"
        /\ m_clicks <= FreeLookups
        /\ m_showSignIn => m_clicks = FreeLookups

\* the EventSource whose events may be applied: the one created last, while a
\* country is selected
CurrentStream == IF m_country = NoSelection THEN 0 ELSE Len(m_es)

\* the stream every piece of the data shown came from
FromStream(data, s) ==
    /\ \A i \in 1..Len(data.current) : data.current[i] = s
    /\ \A i \in 1..Len(data.past) : data.past[i] = s
    /\ data.currentSources \in {0, s}
    /\ data.pastSources \in {0, s}

\* a handler of EventSource s runs in this step
HandlerRuns(s) == OnMessage(s) \/ OnError(s)

\* C37: every EventSource but the current one is closed, the data shown is
\* for the selected country and came from the current stream only, and no
\* handler of another stream runs
C37_PreviousStreamNeverApplied ==
    /\ [](/\ \A s \in 1..Len(m_es) : s # CurrentStream => m_es[s].state = "closed"
          /\ m_data # NoData => (m_data.country = m_country /\ FromStream(m_data, CurrentStream)))
    /\ [][\A s \in 1..Len(m_es) : HandlerRuns(s) => s = CurrentStream]_vars

\* the first stream was closed with events left to deliver, and content of
\* the second stream is shown
C37_Witness ==
    /\ Len(m_es) = 2
    /\ m_es[1].state = "closed"
    /\ m_es[1].todo # <<>>
    /\ m_es[1].country # m_es[2].country
    /\ m_data # NoData
    /\ m_data.current # <<>>


(***************************************************************************)
(* The fan-out of processSearchResults: one classifyEvent call per result, *)
(* joined by Promise.all                                                   *)
(***************************************************************************)
\* results per batch the fan-out is followed for
MaxBatch == 2

\* batches whose titles may collide, with or without a publication date; a
\* result has a URL of its own or none ("" from searchEvents)
FanOutBatches ==
    UNION {{[i \in 1..n |-> [title |-> titles[i],
                             url |-> IF hasUrl[i] THEN <<"u", IndexChar[i]>> ELSE <<>>,
                             publishedDate |-> times[i]]]
                : titles \in [1..n -> {<<"x">>, <<"y">>}], times \in [1..n -> {0, 1}],
                  hasUrl \in [1..n -> BOOLEAN]}
            : n \in 1..MaxBatch}

FanOutOracles(n) == [1..n -> {Answer("high", Paris), Answer("low", Paris), ThrowsAnswer}]

\* the result has not settled yet
Unsettled == 0

\* the calls of the batch: one per result that passed the URL deduplication
Calls(results) ==
    {UniqueResults("full", results)[i].idx : i \in 1..Len(UniqueResults("full", results))}

\* what follows Promise.all: filter, title deduplication and sort of the
\* events the callbacks built, each with new Date() of the moment its call
\* settled if the result has no publication date
AfterBarrier(results, oracle, settledAt) ==
    LET unique == UniqueResults("full", results)
        kept == SelectSeq(unique, LAMBDA it : KeepsItem("full", oracle[it.idx]))
        validEvents == [i \in 1..Len(kept) |->
                            BuildEvent(kept[i], oracle[kept[i].idx], settledAt[kept[i].idx])]
        uniqueEvents == FirstOccurrences(validEvents,
                            [i \in 1..Len(validEvents) |-> validEvents[i].title], {})
    IN SortEvents("full", uniqueEvents)

BatchIdle ==
    /\ b_pc = "idle"
    /\ b_results = <<>>
    /\ b_oracle = <<>>
    /\ b_clock = 0
    /\ b_settledAt = <<>>
    /\ b_events = <<>>

\* processSearchResults has started every callback
BatchInit ==
    /\ b_pc = "classifying"
    /\ b_results \in FanOutBatches
    /\ b_oracle \in FanOutOracles(Len(b_results))
    /\ b_clock = Now
    /\ b_settledAt = [i \in 1..Len(b_results) |-> Unsettled]
    /\ b_events = <<>>

\* the classifyEvent call of result i settles, in the same millisecond as the
\* one before or later; a rejection rejects Promise.all at once
ClassifySettles(i) ==
    /\ b_pc = "classifying"
    /\ i \in Calls(b_results)
    /\ b_settledAt[i] = Unsettled
    /\ \E tick \in {0, 1} :
          /\ b_clock' = b_clock + tick
          /\ b_settledAt' = [b_settledAt EXCEPT ![i] = b_clock']
    /\ b_pc' = IF b_oracle[i].throws THEN "rejected" ELSE b_pc
    /\ UNCHANGED <<b_results, b_oracle, b_events>>
    /\ BatchFrame

\* Promise.all resolves and the rest of processSearchResults runs
BarrierPasses ==
    /\ b_pc = "classifying"
    /\ \A i \in Calls(b_results) : b_settledAt[i] # Unsettled
    /\ b_pc' = "returned"
    /\ b_events' = AfterBarrier(b_results, b_oracle, b_settledAt)
    /\ UNCHANGED <<b_results, b_oracle, b_clock, b_settledAt>>
    /\ BatchFrame

BatchNext ==
    \/ \E i \in 1..Len(b_results) : ClassifySettles(i)
    \/ BarrierPasses

(***************************************************************************)
(* Claims about the fan-out                                                *)
(***************************************************************************)
\* the results the events of a list were built from, in the order of the list
ResultsOf(events) == [i \in 1..Len(events) |-> events[i].idx]

\* the list processSearchResults returns when every call settles in the
\* millisecond the batch started
SettledAtOnce ==
    ProcessSearchResults("full", b_results, b_oracle, Now)

\* the parts of C33 that hold: the stages after the barrier run only once
\* every call has settled, and which events are kept does not depend on the
\* order of completion
C33_BarrierAndKeptSet ==
    b_pc = "returned" =>
        /\ \A i \in Calls(b_results) : b_settledAt[i] # Unsettled
        /\ {b_events[k].idx : k \in 1..Len(b_events)}
                = {SettledAtOnce[k].idx : k \in 1..Len(SettledAtOnce)}

\* C33: the title deduplication and the sort start only after every classify
\* call has settled, and the events returned and their order are those of
\* any other order of completion
C33_OrderOfCompletionIrrelevant ==
    b_pc = "returned" =>
        /\ \A i \in Calls(b_results) : b_settledAt[i] # Unsettled
        /\ ResultsOf(b_events) = ResultsOf(SettledAtOnce)


\* no other result of the batch has the title of result k
TitleOfItsOwn(k) ==
    \A j \in 1..Len(b_results) : j # k => b_results[j].title # b_results[k].title

\* an event built from result k is in the returned list
Kept(k) == \E i \in 1..Len(b_events) : b_events[i].idx = k

\* C38 holds for results that carry a URL: one that differs from the URLs of
\* the other results keeps its result in the batch
C38_HoldsForResultsWithUrl ==
    b_pc = "returned" =>
        \A k \in 1..Len(b_results) :
            (b_results[k].url # <<>> /\ TitleOfItsOwn(k) /\ KeepsItem("full", b_oracle[k]))
                => Kept(k)

\* C38: results without URL are no duplicates of each other: each one with a
\* title of its own and a valid location is in the returned list
C38_ResultsWithoutUrlKept ==
    b_pc = "returned" =>
        \A k \in 1..Len(b_results) :
            (b_results[k].url = <<>> /\ TitleOfItsOwn(k) /\ KeepsItem("full", b_oracle[k]))
                => Kept(k)

(***************************************************************************)
(* Overlapping events fetches: fetchEvents of the replacing useEvents and  *)
(* what it writes to the events store                                      *)
(***************************************************************************)
\* fetchEvents calls of one session the model follows: fetches are numbered
\* 1, 2, ... in the order they start
MaxFetches == 3

\* the store holds the events of no fetch yet
NoFetchYet == 0

\* how a fetch ends: the route answers with events, it asks for a new sign-in
\* (401 or requiresReauth), or the request fails (not ok, or fetch rejects)
FetchOutcomes == {"events", "reauth", "failed"}

FetchesInFlight == {k \in 1..f_started : f_outcome[k] = "pending"}

FetchIdle ==
    /\ f_mode = "self-hosted"
    /\ f_isAuthenticated = FALSE
    /\ f_started = 0
    /\ f_outcome = [k \in 1..MaxFetches |-> "pending"]
    /\ f_events = NoFetchYet
    /\ f_isLoading = FALSE
    /\ f_error = NoError
    /\ f_requiresSignIn = FALSE

\* the hook is about to mount
FetchInit ==
    /\ f_mode \in {"valyu", "self-hosted"}
    /\ f_isAuthenticated \in BOOLEAN
    /\ f_started = 0
    /\ f_outcome = [k \in 1..MaxFetches |-> "pending"]
    /\ f_events = NoFetchYet
    /\ f_isLoading = FALSE
    /\ f_error = NoError
    /\ f_requiresSignIn = FALSE

\* fetchEvents up to its await, called by the mount effect, by the interval
\* or by refresh()
FetchEventsStarts ==
    /\ f_started < MaxFetches
    /\ IF f_mode = "valyu" /\ ~ f_isAuthenticated
       THEN /\ f_requiresSignIn' = TRUE
            /\ f_isLoading' = FALSE
            /\ UNCHANGED <<f_started, f_error>>
       ELSE /\ f_isLoading' = TRUE
            /\ f_error' = NoError
            /\ f_started' = f_started + 1
            /\ UNCHANGED f_requiresSignIn
    /\ UNCHANGED <<f_mode, f_isAuthenticated, f_outcome, f_events>>
    /\ FetchFrame

\* fetchEvents after its await, for fetch k: setEvents, or the error, and the
\* finally block
FetchEventsEnds(k, outcome) ==
    /\ k \in FetchesInFlight
    /\ f_outcome' = [f_outcome EXCEPT ![k] = outcome]
    /\ CASE outcome = "events" ->
                f_events' = k /\ UNCHANGED <<f_error, f_requiresSignIn>>
         [] outcome = "reauth" ->
                /\ f_requiresSignIn' = TRUE
                /\ f_error' = "Please sign in to view events."
                /\ UNCHANGED f_events
         [] OTHER ->
                /\ f_error' = "Failed to fetch events"
                /\ UNCHANGED <<f_events, f_requiresSignIn>>
    /\ f_isLoading' = FALSE
    /\ UNCHANGED <<f_mode, f_isAuthenticated, f_started>>
    /\ FetchFrame

FetchNext ==
    \/ FetchEventsStarts
    \/ \E k \in 1..MaxFetches, outcome \in FetchOutcomes : FetchEventsEnds(k, outcome)

(***************************************************************************)
(* Claims about overlapping fetches                                        *)
(***************************************************************************)
\* C35 holds as long as fetches do not overlap: the fetch that ended is the
\* one started last
C35_HoldsWithoutOverlap ==
    [][\A k \in 1..MaxFetches :
            (FetchEventsEnds(k, "events") /\ FetchesInFlight = {k})
                => (f_events' = k /\ ~ f_isLoading')]_vars

\* every fetch has been answered, the one started last with events, and the
\* store holds those
StoreHoldsLastStarted ==
    (FetchesInFlight = {} /\ f_started > 0 /\ f_outcome[f_started] = "events")
        => f_events = f_started

LoadingWhileInFlight == FetchesInFlight # {} => f_isLoading

\* C35: once every fetch has been answered, the store holds the events of the
\* fetch that was started last if that fetch brought events, and isLoading is
\* false only while no fetch is in flight
C35_LastStartedWins == StoreHoldsLastStarted /\ LoadingWhileInFlight


(***************************************************************************)
(* Refreshes of the merging useEvents: the route builds the events anew for*)
(* every request and the hook merges them into the store by id             *)
(***************************************************************************)
\* fetchEvents calls of one session the model follows
MaxRefreshes == 4

\* the articles the search returns, the same for every request: an article
\* stands for its source URL and title
Articles == <<"article-1", "article-2">>

\* generateEventId (lib/utils): a freshly generated unique id, here the next
\* number
GenerateEventId(issued) == issued + 1

\* processSearchResults for the articles: one event per article, each with
\* the id generated for it in this request
EventsOfRequest(issued) ==
    [i \in 1..Len(Articles) |-> [article |-> Articles[i], id |-> GenerateEventId(issued + i - 1)]]

\* newEvents.filter((e) => !existingIds.has(e.id))
TrulyNewEvents(newEvents, existingIds) ==
    SelectSeq(newEvents, LAMBDA e : e.id \notin existingIds)

RefreshIdle ==
    /\ r_events = <<>>
    /\ r_initialFetch = FALSE
    /\ r_issued = 0
    /\ r_calls = 0
    /\ r_inflight = {}

\* the hook has mounted in a session that may fetch
RefreshInit ==
    /\ r_events = <<>>
    /\ r_initialFetch = FALSE
    /\ r_issued = 0
    /\ r_calls = 0
    /\ r_inflight = {}

\* fetchEvents up to its await: the callback holds the events of the render
\* it was created in
RefreshStarts ==
    /\ r_calls < MaxRefreshes
    /\ r_calls' = r_calls + 1
    /\ r_inflight' = r_inflight \cup
            {[call |-> r_calls + 1, existingIds |-> {r_events[i].id : i \in 1..Len(r_events)}]}
    /\ UNCHANGED <<r_events, r_initialFetch, r_issued>>
    /\ RefreshFrame

\* the route answers a request with the events it built, and fetchEvents
\* replaces the store's events the first time and merges afterwards
RefreshAnswered(fetch) ==
    /\ fetch \in r_inflight
    /\ r_inflight' = r_inflight \ {fetch}
    /\ r_issued' = r_issued + Len(Articles)
    /\ LET newEvents == EventsOfRequest(r_issued)
           trulyNewEvents == TrulyNewEvents(newEvents, fetch.existingIds)
       IN IF ~ r_initialFetch
          THEN r_events' = newEvents /\ r_initialFetch' = TRUE
          ELSE /\ r_events' = IF trulyNewEvents # <<>>
                              THEN Merge(trulyNewEvents, r_events) ELSE r_events
               /\ UNCHANGED r_initialFetch
    /\ UNCHANGED r_calls
    /\ RefreshFrame

\* the request fails: the catch block sets the error
RefreshFails(fetch) ==
    /\ fetch \in r_inflight
    /\ r_inflight' = r_inflight \ {fetch}
    /\ UNCHANGED <<r_events, r_initialFetch, r_issued, r_calls>>
    /\ RefreshFrame

RefreshNext ==
    \/ RefreshStarts
    \/ \E fetch \in r_inflight : RefreshAnswered(fetch)
    \/ \E fetch \in r_inflight : RefreshFails(fetch)

(***************************************************************************)
(* Claims about the refreshes                                              *)
(***************************************************************************)
\* what the merge does guarantee: no two events of the store have the same id
C36_NoTwoEventsWithOneId ==
    \A i, j \in 1..Len(r_events) : r_events[i].id = r_events[j].id => i = j

\* C36: after any number of refreshes that return the same articles the
\* store holds no two events with the same source URL and title
C36_NoArticleTwice ==
    \A i, j \in 1..Len(r_events) : r_events[i].article = r_events[j].article => i = j

(***************************************************************************)
(* Specifications                                                          *)
(***************************************************************************)
StreamInitAll == StreamInit /\ AsmIdle /\ WaitIdle /\ PollIdle /\ HookIdle /\ SearchIdle /\ EntityIdle /\ StoreIdle /\ DelivIdle /\ GeoIdle /\ CreateIdle /\ ModalIdle /\ BatchIdle /\ FetchIdle /\ RefreshIdle

SpecStream == StreamInitAll /\ [][StreamNext]_vars

AsmInitAll == AsmInit /\ StreamIdle /\ WaitIdle /\ PollIdle /\ HookIdle /\ SearchIdle /\ EntityIdle /\ StoreIdle /\ DelivIdle /\ GeoIdle /\ CreateIdle /\ ModalIdle /\ BatchIdle /\ FetchIdle /\ RefreshIdle

SpecAsm == AsmInitAll /\ [][AsmNext]_vars

WaitInitAll == WaitInit /\ StreamIdle /\ AsmIdle /\ PollIdle /\ HookIdle /\ SearchIdle /\ EntityIdle /\ StoreIdle /\ DelivIdle /\ GeoIdle /\ CreateIdle /\ ModalIdle /\ BatchIdle /\ FetchIdle /\ RefreshIdle

\* the wait loop is one sequential async function: its next step always runs
SpecWait == WaitInitAll /\ [][WaitNext]_vars /\ WF_vars(WaitNext)

PollInitAll == PollInit /\ StreamIdle /\ AsmIdle /\ WaitIdle /\ HookIdle /\ SearchIdle /\ EntityIdle /\ StoreIdle /\ DelivIdle /\ GeoIdle /\ CreateIdle /\ ModalIdle /\ BatchIdle /\ FetchIdle /\ RefreshIdle

SpecPoller == PollInitAll /\ [][PollNext]_vars

HookInitAll == HookInit /\ StreamIdle /\ AsmIdle /\ WaitIdle /\ PollIdle /\ SearchIdle /\ EntityIdle /\ StoreIdle /\ DelivIdle /\ GeoIdle /\ CreateIdle /\ ModalIdle /\ BatchIdle /\ FetchIdle /\ RefreshIdle

SpecHook == HookInitAll /\ [][HookNext]_vars

SpecCancel == StreamInitAll /\ [][CancelNext]_vars

SearchInitAll == SearchInit /\ StreamIdle /\ AsmIdle /\ WaitIdle /\ PollIdle /\ HookIdle /\ EntityIdle /\ StoreIdle /\ DelivIdle /\ GeoIdle /\ CreateIdle /\ ModalIdle /\ BatchIdle /\ FetchIdle /\ RefreshIdle

SpecSearch == SearchInitAll /\ [][SearchNext]_vars

EntityInitAll ==
    EntityInit /\ StreamIdle /\ AsmIdle /\ WaitIdle /\ PollIdle /\ HookIdle /\ SearchIdle
    /\ StoreIdle /\ DelivIdle /\ GeoIdle /\ CreateIdle /\ ModalIdle /\ BatchIdle /\ FetchIdle /\ RefreshIdle

SpecEntity == EntityInitAll /\ [][EntityNext]_vars

StoreInitAll ==
    StoreInit /\ StreamIdle /\ AsmIdle /\ WaitIdle /\ PollIdle /\ HookIdle /\ SearchIdle
    /\ EntityIdle /\ DelivIdle /\ GeoIdle /\ CreateIdle /\ ModalIdle /\ BatchIdle /\ FetchIdle /\ RefreshIdle

SpecStore == StoreInitAll /\ [][StoreNext]_vars

DelivInitAll ==
    DelivInit /\ StreamIdle /\ AsmIdle /\ WaitIdle /\ PollIdle
    /\ HookIdle /\ SearchIdle /\ EntityIdle /\ StoreIdle /\ GeoIdle /\ CreateIdle /\ ModalIdle /\ BatchIdle /\ FetchIdle /\ RefreshIdle

SpecDeliv == DelivInitAll /\ [][DelivNext]_vars

GeoInitAll ==
    GeoInit /\ StreamIdle /\ AsmIdle /\ WaitIdle /\ PollIdle
    /\ HookIdle /\ SearchIdle /\ EntityIdle /\ StoreIdle /\ DelivIdle /\ CreateIdle /\ ModalIdle /\ BatchIdle /\ FetchIdle /\ RefreshIdle

SpecGeo == GeoInitAll /\ [][GeoNext]_vars

CreateInitAll ==
    CreateInit /\ StreamIdle /\ AsmIdle /\ WaitIdle /\ PollIdle
    /\ HookIdle /\ SearchIdle /\ EntityIdle /\ StoreIdle /\ DelivIdle /\ GeoIdle /\ ModalIdle /\ BatchIdle /\ FetchIdle /\ RefreshIdle

SpecCreate == CreateInitAll /\ [][CreateNext]_vars

ModalInitAll ==
    ModalInit /\ StreamIdle /\ AsmIdle /\ WaitIdle /\ PollIdle
    /\ HookIdle /\ SearchIdle /\ EntityIdle /\ StoreIdle /\ DelivIdle /\ GeoIdle /\ CreateIdle /\ BatchIdle /\ FetchIdle /\ RefreshIdle

SpecModal == ModalInitAll /\ [][ModalNext]_vars

BatchInitAll ==
    BatchInit /\ StreamIdle /\ AsmIdle /\ WaitIdle /\ PollIdle
    /\ HookIdle /\ SearchIdle /\ EntityIdle /\ StoreIdle /\ DelivIdle /\ GeoIdle /\ CreateIdle /\ ModalIdle /\ FetchIdle /\ RefreshIdle

SpecBatch == BatchInitAll /\ [][BatchNext]_vars

FetchInitAll ==
    FetchInit /\ StreamIdle /\ AsmIdle /\ WaitIdle /\ PollIdle
    /\ HookIdle /\ SearchIdle /\ EntityIdle /\ StoreIdle /\ DelivIdle /\ GeoIdle /\ CreateIdle /\ ModalIdle /\ BatchIdle /\ RefreshIdle

SpecFetch == FetchInitAll /\ [][FetchNext]_vars

RefreshInitAll ==
    RefreshInit /\ StreamIdle /\ AsmIdle /\ WaitIdle /\ PollIdle
    /\ HookIdle /\ SearchIdle /\ EntityIdle /\ StoreIdle /\ DelivIdle /\ GeoIdle /\ CreateIdle /\ ModalIdle /\ BatchIdle /\ FetchIdle

SpecRefresh == RefreshInitAll /\ [][RefreshNext]_vars

====
